---- MODULE Spec2Model ----
(***************************************************************************)
(* Model of the aggregation core of the dashboard: filterData,             *)
(* prepareGroupedBarData and prepareLineChartData of lib/data-processor.ts *)
(* and the stacking decision of components/charts/GroupedBarChart.tsx.     *)
(*                                                                         *)
(* Strings are TLA+ strings; startsWith / includes / split are computed    *)
(* character by character as JavaScript computes them.  Numbers are        *)
(* non-negative integers (values exactly representable as doubles), so     *)
(* sums are exact.  A JavaScript Map or plain object is a TLA+ function    *)
(* whose DOMAIN is the set of keys present.                                *)
(***************************************************************************)
EXTENDS Integers, Sequences, FiniteSets, TLC

VARIABLES data, filters, filtered, barData, lineData, computed,
          dimensions, selectedGeography, selectedBusinessType,
          maxBubbles, minOpportunityIndex, chartData,
          waterfallData, tableData, store, presets, callStack, descendants

vars == <<data, filters, filtered, barData, lineData, computed,
          dimensions, selectedGeography, selectedBusinessType,
          maxBubbles, minOpportunityIndex, chartData,
          waterfallData, tableData, store, presets, callStack, descendants>>

----------------------------------------------------------------------------
(* Bounds of the checked input universe *)

MaxRecords == 2

MaxSel == 2

(* largest dataset of the opportunity matrix drawn from its record pool *)
MaxBubbleRecords == 2

(* number of sibling segments in the wide datasets of the opportunity matrix *)
WideCount == 7

----------------------------------------------------------------------------
(* JavaScript string primitives *)

StartsWith(s, p) == Len(p) <= Len(s) /\ SubSeq(s, 1, Len(p)) = p

Includes(s, p) ==
    \E i \in 1..(Len(s) - Len(p) + 1) : SubSeq(s, i, i + Len(p) - 1) = p

SEP == " > "

KEYSEP == "::"

RECURSIVE SplitFrom(_, _, _, _)
SplitFrom(s, sep, start, i) ==
    IF i + Len(sep) - 1 > Len(s)
    THEN <<SubSeq(s, start, Len(s))>>
    ELSE IF SubSeq(s, i, i + Len(sep) - 1) = sep
         THEN <<SubSeq(s, start, i - 1)>> \o SplitFrom(s, sep, i + Len(sep), i + Len(sep))
         ELSE SplitFrom(s, sep, start, i + 1)

Split(s, sep) == SplitFrom(s, sep, 1, 1)

SeqIncludes(q, x) == \E i \in 1..Len(q) : q[i] = x

(* Array.prototype.find / some: hits[i] is the callback's result on element *)
(* i; the scan runs left to right and stops at the first hit (0: none).     *)
(* a scan that keeps going and returns the last hit *)
RECURSIVE FirstHit_Last(_, _)
FirstHit_Last(hits, i) ==
    IF i > Len(hits) THEN 0
    ELSE LET later == FirstHit_Last(hits, i + 1) IN
           IF later # 0 THEN later
           ELSE IF hits[i] THEN i
           ELSE 0

RECURSIVE FirstHit(_, _)
FirstHit(hits, i) ==
    IF i > Len(hits) THEN 0
    ELSE IF hits[i] THEN i
    ELSE FirstHit(hits, i + 1)

----------------------------------------------------------------------------
(* Maps with numeric values: map.get(k) || 0  and  map.set(k, get + v) *)

EmptyMap == [k \in {} |-> 0]

Get(m, k) == IF k \in DOMAIN m THEN m[k] ELSE 0

(* a map.set(k, v) that forgets the value already stored *)
MapAdd_Overwrite(m, k, v) ==
    [x \in (DOMAIN m) \cup {k} |-> IF x = k THEN v ELSE m[x]]

MapAdd(m, k, v) ==
    [x \in (DOMAIN m) \cup {k} |-> IF x = k THEN Get(m, k) + v ELSE m[x]]

MapMerge(m, n) ==
    [x \in (DOMAIN m) \cup (DOMAIN n) |-> Get(m, x) + Get(n, x)]

TimeSeriesValue(r, year) ==
    IF year \in DOMAIN r.time_series THEN r.time_series[year] ELSE 0

----------------------------------------------------------------------------
(* Literals of the program *)

INDIA == "India"

B2B == "B2B"

B2C == "B2C"

END_USE_TYPE == "By End-Use*Product Type"

SEGMENT_MODE == "segment-mode"

GEOGRAPHY_MODE == "geography-mode"

MATRIX == "matrix"

----------------------------------------------------------------------------
(* filterData, lib/data-processor.ts *)

(* the two prefix tests only *)
isGeographyMatch_PrefixOnly(recordGeography, selectedGeographies) ==
    \/ Len(selectedGeographies) = 0
    \/ \E i \in 1..Len(selectedGeographies) :
          LET geo == selectedGeographies[i] IN
            \/ recordGeography = geo
            \/ StartsWith(recordGeography, geo)
            \/ StartsWith(geo, recordGeography)

isGeographyMatch(recordGeography, selectedGeographies) ==
    \/ Len(selectedGeographies) = 0
    \/ \E i \in 1..Len(selectedGeographies) :
          LET geo == selectedGeographies[i] IN
            \/ recordGeography = geo
            \/ StartsWith(recordGeography, geo)
            \/ StartsWith(geo, recordGeography)
            \/ Includes(recordGeography, geo)
            \/ Includes(geo, recordGeography)

(* segment_hierarchy?.level_1 ; "" stands for an absent level *)
Level1(record) ==
    IF Len(record.segment_hierarchy) >= 1 THEN record.segment_hierarchy[1] ELSE ""

(* the path token consulted for every segment type *)
businessTypeMatch_AnyType(record, f) ==
    LET recordBusinessType == Level1(record)
        segmentParts == Split(record.segment, SEP)
    IN  IF recordBusinessType = B2B \/ recordBusinessType = B2C
        THEN recordBusinessType = f.businessType
        ELSE IF Len(segmentParts) > 0 /\ (segmentParts[1] = B2B \/ segmentParts[1] = B2C)
             THEN segmentParts[1] = f.businessType
             ELSE TRUE

businessTypeMatch(record, f) ==
    LET recordBusinessType == Level1(record)
        segmentParts == Split(record.segment, SEP)
    IN  IF recordBusinessType = B2B \/ recordBusinessType = B2C
        THEN recordBusinessType = f.businessType
        ELSE IF f.segmentType = END_USE_TYPE
             THEN IF Len(segmentParts) > 0 /\ (segmentParts[1] = B2B \/ segmentParts[1] = B2C)
                  THEN segmentParts[1] = f.businessType
                  ELSE TRUE
             ELSE TRUE

advancedSegmentMatch(record, f) ==
    \E i \in 1..Len(f.advancedSegments) :
       LET seg == f.advancedSegments[i] IN
         /\ seg.type = record.segment_type
         /\ \/ seg.segment = record.segment
            \/ StartsWith(record.segment, seg.segment \o SEP)
            \/ StartsWith(seg.segment, record.segment \o SEP)

filterSegmentMatch(record, selectedSegment) ==
    \/ selectedSegment = record.segment
    \/ StartsWith(record.segment, selectedSegment \o SEP)
    \/ StartsWith(selectedSegment, record.segment \o SEP)
    \/ LET selectedParts == Split(selectedSegment, SEP) IN
         \E j \in 1..Len(record.segment_hierarchy) :
            /\ record.segment_hierarchy[j] # ""
            /\ SeqIncludes(selectedParts, record.segment_hierarchy[j])

segMatch(record, f) ==
    IF Len(f.segments) > 0
    THEN \E i \in 1..Len(f.segments) : filterSegmentMatch(record, f.segments[i])
    ELSE TRUE

filterPredicate(record, f) ==
    IF ~ isGeographyMatch(record.geography, f.geographies) THEN FALSE
    ELSE IF ~ (record.segment_type = f.segmentType) THEN FALSE
    ELSE IF ~ businessTypeMatch(record, f) THEN FALSE
    ELSE IF Len(f.advancedSegments) > 0 THEN advancedSegmentMatch(record, f)
    ELSE segMatch(record, f)

(* the kept records returned last-first *)
filterData_Reversed(records, f) ==
    LET kept == SelectSeq(records, LAMBDA r : filterPredicate(r, f)) IN
      [i \in 1..Len(kept) |-> kept[Len(kept) + 1 - i]]

filterData(records, f) == SelectSeq(records, LAMBDA r : filterPredicate(r, f))

----------------------------------------------------------------------------
(* prepareGroupedBarData, lib/data-processor.ts: shared parts *)

hasIndia(f) == SeqIncludes(f.geographies, INDIA)

childGeographies(records, f) ==
    IF hasIndia(f)
    THEN {records[i].geography : i \in
            {j \in 1..Len(records) :
               \/ records[j].parent_geography = INDIA
               \/ records[j].geography_level = "region"
               \/ records[j].geography_level = "country"}}
    ELSE {}

(* the loop stopping one year short: year < endYear *)
YearsOf_Exclusive(f) ==
    [i \in 1..(IF f.yearRange[2] > f.yearRange[1]
               THEN f.yearRange[2] - f.yearRange[1] ELSE 0)
       |-> f.yearRange[1] + i - 1]

YearsOf(f) ==
    [i \in 1..(IF f.yearRange[2] >= f.yearRange[1]
               THEN f.yearRange[2] - f.yearRange[1] + 1 ELSE 0)
       |-> f.yearRange[1] + i - 1]

needsStacking(f) ==
    \/ (f.viewMode = SEGMENT_MODE /\ Len(f.geographies) > 1)
    \/ (f.viewMode = GEOGRAPHY_MODE /\ Len(f.segments) > 1)

(* segments.some(seg => record.segment === seg || record.segment.startsWith(seg + ' > ')) *)
rollupSegmentMatch(record, segments) ==
    \E i \in 1..Len(segments) :
       \/ record.segment = segments[i]
       \/ StartsWith(record.segment, segments[i] \o SEP)

(* the exact-match alternative left out of the stacked find *)
stackedSegmentHit_NoExact(record, seg) ==
    \/ StartsWith(record.segment, seg \o SEP)
    \/ StartsWith(seg, record.segment \o SEP)

(* the callback of segments.find in the stacked branches *)
stackedSegmentHit(record, seg) ==
    \/ record.segment = seg
    \/ StartsWith(record.segment, seg \o SEP)
    \/ StartsWith(seg, record.segment \o SEP)

(* the callback of segments.find in the unstacked branch and in the stacked *)
(* segment-mode rollup                                                      *)
unstackedSegmentHit(record, seg) ==
    \/ record.segment = seg
    \/ StartsWith(record.segment, seg \o SEP)
    \/ (Includes(seg, SEP) /\ StartsWith(record.segment, seg))

(* the callback of geographies.find *)
geographyHit(recordGeo, geo) ==
    \/ recordGeo = geo
    \/ StartsWith(recordGeo, geo)
    \/ StartsWith(geo, recordGeo)
    \/ Includes(recordGeo, geo)
    \/ Includes(geo, recordGeo)

findStackedSegment(record, segments) ==
    FirstHit([i \in 1..Len(segments) |-> stackedSegmentHit(record, segments[i])], 1)

findUnstackedSegment(record, segments) ==
    FirstHit([i \in 1..Len(segments) |-> unstackedSegmentHit(record, segments[i])], 1)

findGeography(record, geographies) ==
    FirstHit([i \in 1..Len(geographies) |-> geographyHit(record.geography, geographies[i])], 1)

RECURSIVE SumOver(_, _)
SumOver(m, keys) ==
    IF keys = {} THEN 0
    ELSE LET k == CHOOSE x \in keys : TRUE IN m[k] + SumOver(m, keys \ {k})

MapTotal(m) == SumOver(m, DOMAIN m)

(* the first rollup, run for every year before the stacked / unstacked branch *)
RECURSIVE indiaAggregatedFrom(_, _, _, _, _, _)
indiaAggregatedFrom(records, f, year, children, i, acc) ==
    IF i > Len(records) THEN acc
    ELSE LET record == records[i]
             matchesSegment == Len(f.segments) = 0 \/ rollupSegmentMatch(record, f.segments)
             value == TimeSeriesValue(record, year)
             next == IF record.geography \in children /\ matchesSegment
                     THEN IF f.viewMode = SEGMENT_MODE
                          THEN MapAdd(acc, record.segment, value)
                          ELSE IF Len(f.segments) > 0
                               THEN MapAdd(acc, INDIA, value)
                               ELSE acc
                     ELSE acc
         IN  indiaAggregatedFrom(records, f, year, children, i + 1, next)

indiaAggregated(records, f, year) ==
    indiaAggregatedFrom(records, f, year, childGeographies(records, f), 1, EmptyMap)

(* dataPoint (without its year field) after the first rollup *)
rollupDataPoint(records, f, year) ==
    IF hasIndia(f) /\ childGeographies(records, f) # {}
    THEN LET agg == indiaAggregated(records, f, year) IN
           IF f.viewMode = SEGMENT_MODE THEN agg
           ELSE IF DOMAIN agg = {} THEN EmptyMap
                ELSE [k \in {INDIA} |-> MapTotal(agg)]
    ELSE EmptyMap

----------------------------------------------------------------------------
(* prepareGroupedBarData: stacked branches.  geoMap is a function from     *)
(* geography to a map from segment to number.                              *)

allGeographies(records, f) ==
    IF Len(f.geographies) > 0
    THEN {f.geographies[i] : i \in 1..Len(f.geographies)}
    ELSE {records[i].geography : i \in 1..Len(records)}

NestedAdd(geoMap, geo, seg, v) ==
    [g \in (DOMAIN geoMap) \cup {geo} |->
       IF g = geo
       THEN MapAdd(IF geo \in DOMAIN geoMap THEN geoMap[geo] ELSE EmptyMap, seg, v)
       ELSE geoMap[g]]

(* absent segments left absent *)
zeroFill_None(geoMap, segments) == geoMap

(* "if this segment doesn't exist for this geography, add it with 0 value" *)
zeroFill(geoMap, segments) ==
    IF Len(segments) > 0
    THEN [g \in DOMAIN geoMap |->
            [s \in (DOMAIN geoMap[g]) \cup {segments[i] : i \in 1..Len(segments)} |->
               Get(geoMap[g], s)]]
    ELSE geoMap

(* records.forEach of the stacked segment-mode branch *)
RECURSIVE stackedSegmentModeFrom(_, _, _, _, _, _)
stackedSegmentModeFrom(records, f, year, children, i, geoMap) ==
    IF i > Len(records) THEN geoMap
    ELSE LET record == records[i]
             found == findStackedSegment(record, f.segments)
             recordMatched == IF Len(f.segments) > 0 THEN found # 0 ELSE TRUE
             matchingSegment == IF found # 0 THEN f.segments[found] ELSE record.segment
             next == IF hasIndia(f) /\ record.geography \in children THEN geoMap
                     ELSE IF ~ recordMatched THEN geoMap
                     ELSE NestedAdd(geoMap, record.geography, matchingSegment,
                                    TimeSeriesValue(record, year))
         IN  stackedSegmentModeFrom(records, f, year, children, i + 1, next)

(* records.forEach of the stacked geography-mode branch *)
RECURSIVE stackedGeographyModeFrom(_, _, _, _, _, _)
stackedGeographyModeFrom(records, f, year, children, i, geoMap) ==
    IF i > Len(records) THEN geoMap
    ELSE LET record == records[i]
             matchingGeo == findGeography(record, f.geographies)
             normalizedGeography == IF matchingGeo # 0 THEN f.geographies[matchingGeo]
                                    ELSE record.geography
             found == findStackedSegment(record, f.segments)
             recordMatched == IF Len(f.segments) > 0 THEN found # 0 ELSE TRUE
             matchingSegment == IF found # 0 THEN f.segments[found] ELSE record.segment
             next == IF hasIndia(f) /\ record.geography \in children THEN geoMap
                     ELSE IF normalizedGeography \notin DOMAIN geoMap THEN geoMap
                     ELSE IF ~ recordMatched THEN geoMap
                     ELSE NestedAdd(geoMap, normalizedGeography, matchingSegment,
                                    TimeSeriesValue(record, year))
         IN  stackedGeographyModeFrom(records, f, year, children, i + 1, next)

(* indiaSegmentMap of the stacked branches; byFound: key is the selected   *)
(* segment found (segment-mode) or the record's own segment                *)
RECURSIVE indiaSegmentMapFrom(_, _, _, _, _, _, _)
indiaSegmentMapFrom(records, f, year, children, byFound, i, acc) ==
    IF i > Len(records) THEN acc
    ELSE LET record == records[i]
             found == findUnstackedSegment(record, f.segments)
             value == TimeSeriesValue(record, year)
             next == IF record.geography \in children
                        /\ rollupSegmentMatch(record, f.segments)
                     THEN IF byFound
                          THEN IF found # 0 THEN MapAdd(acc, f.segments[found], value)
                               ELSE acc
                          ELSE MapAdd(acc, record.segment, value)
                     ELSE acc
         IN  indiaSegmentMapFrom(records, f, year, children, byFound, i + 1, next)

(* geoMap.get('India') merged with indiaSegmentMap *)
addIndia(geoMap, indiaSegmentMap) ==
    [g \in (DOMAIN geoMap) \cup {INDIA} |->
       IF g = INDIA
       THEN MapMerge(IF INDIA \in DOMAIN geoMap THEN geoMap[INDIA] ELSE EmptyMap,
                     indiaSegmentMap)
       ELSE geoMap[g]]

stackedGeoMap(records, f, year) ==
    LET children == childGeographies(records, f)
        init == [g \in allGeographies(records, f) |-> EmptyMap]
        looped == IF f.viewMode = SEGMENT_MODE
                  THEN stackedSegmentModeFrom(records, f, year, children, 1, init)
                  ELSE stackedGeographyModeFrom(records, f, year, children, 1, init)
        filled == zeroFill(looped, f.segments)
    IN  IF hasIndia(f) /\ children # {} /\ Len(f.segments) > 0
        THEN addIndia(filled,
                      indiaSegmentMapFrom(records, f, year, children,
                                          f.viewMode = SEGMENT_MODE, 1, EmptyMap))
        ELSE filled

(* `${geography}::${segment}` in segment-mode, `${segment}::${geography}` *)
(* in geography-mode.  No geography or segment name of the universe      *)
(* holds '::', so two (geography, segment) pairs never share a key.       *)
stackedKey(f, geography, segment) ==
    IF f.viewMode = SEGMENT_MODE
    THEN geography \o KEYSEP \o segment
    ELSE segment \o KEYSEP \o geography

stackedColumns(records, f, year) ==
    LET geoMap == stackedGeoMap(records, f, year)
        pairs == {<<g, s>> \in (DOMAIN geoMap) \X
                    UNION {DOMAIN geoMap[g] : g \in DOMAIN geoMap} :
                    s \in DOMAIN geoMap[g]}
    IN  [k \in {stackedKey(f, p[1], p[2]) : p \in pairs} |->
           LET p == CHOOSE q \in pairs : stackedKey(f, q[1], q[2]) = k
           IN  geoMap[p[1]][p[2]]]

(* dataPoint[key] = value : assignment over what the first rollup wrote *)
Overwrite(m, n) ==
    [x \in (DOMAIN m) \cup (DOMAIN n) |-> IF x \in DOMAIN n THEN n[x] ELSE m[x]]

----------------------------------------------------------------------------
(* prepareGroupedBarData: unstacked branch *)

unstackedKey(record, f) ==
    IF f.viewMode = SEGMENT_MODE
    THEN IF Len(f.segments) > 0
         THEN LET matchingSegment == findUnstackedSegment(record, f.segments) IN
                IF matchingSegment # 0 THEN f.segments[matchingSegment]
                ELSE record.segment
         ELSE record.segment
    ELSE IF f.viewMode = GEOGRAPHY_MODE
    THEN IF Len(f.geographies) > 0
         THEN LET matchingGeo == findGeography(record, f.geographies) IN
                IF matchingGeo # 0 THEN f.geographies[matchingGeo]
                ELSE record.geography
         ELSE record.geography
    ELSE IF f.viewMode = MATRIX
    THEN record.geography \o KEYSEP \o record.segment
    ELSE record.geography

RECURSIVE aggregatedDataFrom(_, _, _, _, _, _)
aggregatedDataFrom(records, f, year, children, i, acc) ==
    IF i > Len(records) THEN acc
    ELSE LET record == records[i]
             next == IF hasIndia(f) /\ record.geography \in children THEN acc
                     ELSE MapAdd(acc, unstackedKey(record, f),
                                 TimeSeriesValue(record, year))
         IN  aggregatedDataFrom(records, f, year, children, i + 1, next)

(* the scan started at the second record *)
aggregatedData_SkipFirst(records, f, year) ==
    aggregatedDataFrom(records, f, year, childGeographies(records, f), 2, EmptyMap)

aggregatedData(records, f, year) ==
    aggregatedDataFrom(records, f, year, childGeographies(records, f), 1, EmptyMap)

----------------------------------------------------------------------------
(* prepareGroupedBarData: one dataPoint per year of yearRange *)

(* the unstacked branch: dataPoint[key] = (dataPoint[key] || 0) + value *)
unstackedDataPoint(records, f, year) ==
    MapMerge(rollupDataPoint(records, f, year), aggregatedData(records, f, year))

groupedBarDataPoint(records, f, year) ==
    [year |-> year,
     cols |-> IF needsStacking(f)
              THEN Overwrite(rollupDataPoint(records, f, year),
                             stackedColumns(records, f, year))
              ELSE unstackedDataPoint(records, f, year)]

prepareGroupedBarData(records, f) ==
    [i \in 1..Len(YearsOf(f)) |-> groupedBarDataPoint(records, f, YearsOf(f)[i])]

----------------------------------------------------------------------------
(* prepareLineChartData *)

lineKey(record, f) ==
    IF f.viewMode = SEGMENT_MODE THEN record.segment
    ELSE IF f.viewMode = GEOGRAPHY_MODE THEN record.geography
    ELSE IF f.viewMode = MATRIX THEN record.geography \o KEYSEP \o record.segment
    ELSE record.geography

RECURSIVE lineAggregatedFrom(_, _, _, _, _, _)
lineAggregatedFrom(records, f, year, children, i, acc) ==
    IF i > Len(records) THEN acc
    ELSE LET record == records[i]
             next == IF hasIndia(f) /\ record.geography \in children THEN acc
                     ELSE MapAdd(acc, lineKey(record, f), TimeSeriesValue(record, year))
         IN  lineAggregatedFrom(records, f, year, children, i + 1, next)

RECURSIVE lineIndiaAggregatedFrom(_, _, _, _, _, _)
lineIndiaAggregatedFrom(records, f, year, children, i, acc) ==
    IF i > Len(records) THEN acc
    ELSE LET record == records[i]
             value == TimeSeriesValue(record, year)
             next == IF record.geography \in children
                        /\ rollupSegmentMatch(record, f.segments)
                     THEN IF f.viewMode = SEGMENT_MODE
                          THEN MapAdd(acc, record.segment, value)
                          ELSE MapAdd(acc, INDIA, value)
                     ELSE acc
         IN  lineIndiaAggregatedFrom(records, f, year, children, i + 1, next)

lineIndiaAggregated(records, f, year) ==
    LET children == childGeographies(records, f) IN
      IF hasIndia(f) /\ children # {} /\ Len(f.segments) > 0
      THEN lineIndiaAggregatedFrom(records, f, year, children, 1, EmptyMap)
      ELSE EmptyMap

lineDataPoint(records, f, year) ==
    [year |-> year,
     cols |-> MapMerge(lineAggregatedFrom(records, f, year,
                                          childGeographies(records, f), 1, EmptyMap),
                       lineIndiaAggregated(records, f, year))]

prepareLineChartData(records, f) ==
    [i \in 1..Len(YearsOf(f)) |-> lineDataPoint(records, f, YearsOf(f)[i])]

----------------------------------------------------------------------------
(* components/charts/GroupedBarChart.tsx: the chart's stacking decision,   *)
(* for a chart without the optional segmentFilter prop                     *)

isStacked(f) ==
    \/ (f.viewMode = SEGMENT_MODE /\ Len(f.segments) > 1 /\ Len(f.geographies) > 1)
    \/ (f.viewMode = GEOGRAPHY_MODE /\ Len(f.geographies) > 1 /\ Len(f.segments) > 1)

----------------------------------------------------------------------------
(* Numbers of the opportunity matrix.  Sums of record values are integers; *)
(* quotients are kept exact as fractions [n, d] in lowest terms, d > 0.     *)

RECURSIVE GCD(_, _)
GCD(a, b) == IF b = 0 THEN a ELSE GCD(b, a % b)

Abs(x) == IF x < 0 THEN 0 - x ELSE x

Rat(n, d) ==
    LET g == GCD(Abs(n), d) IN
      IF n = 0 THEN [n |-> 0, d |-> 1] ELSE [n |-> n \div g, d |-> d \div g]

RatOf(k) == [n |-> k, d |-> 1]

RatLE(a, b) == a.n * b.d <= b.n * a.d

RatLT(a, b) == a.n * b.d < b.n * a.d

RatMin(a, b) == IF RatLE(a, b) THEN a ELSE b

RatMax(a, b) == IF RatLE(a, b) THEN b ELSE a

(* (a / b) * 100, for b > 0 *)
RatPercentOf(a, b) == Rat(a.n * b.d * 100, a.d * b.n)

(* Math.max(...values) over a non-empty sequence of fractions *)
RECURSIVE RatMaxFrom(_, _, _)
RatMaxFrom(values, i, acc) ==
    IF i > Len(values) THEN acc
    ELSE RatMaxFrom(values, i + 1, RatMax(acc, values[i]))

RatMaxOf(values) == RatMaxFrom(values, 2, values[1])

(* floor of the square root, by bisection: lo * lo <= n < hi * hi *)
RECURSIVE IsqrtBetween(_, _, _)
IsqrtBetween(n, lo, hi) ==
    IF hi - lo <= 1 THEN lo
    ELSE LET mid == (lo + hi) \div 2 IN
           IF mid * mid <= n THEN IsqrtBetween(n, mid, hi)
           ELSE IsqrtBetween(n, lo, mid)

Isqrt(n) == IsqrtBetween(n, 0, 10001)

(* Math.pow(x, 1 / 8) in thousandths, for x given in thousandths and at   *)
(* most 100: three square roots, each rounded down to a thousandth         *)
ROOT_SCALE == 1000

EighthRoot(x) == Isqrt(Isqrt(Isqrt(x * ROOT_SCALE) * ROOT_SCALE) * ROOT_SCALE)

----------------------------------------------------------------------------
(* chartData of D3BubbleChartIndependent *)

ALL == "All"

forecastYear == 2032

baseYear == 2024

RECURSIVE Join(_, _)
Join(parts, sep) ==
    IF Len(parts) = 0 THEN ""
    ELSE IF Len(parts) = 1 THEN parts[1]
    ELSE parts[1] \o sep \o Join(Tail(parts), sep)

normalizePath(path) ==
    LET parts == Split(path, SEP) IN
      IF parts[1] = B2B \/ parts[1] = B2C THEN Join(Tail(parts), SEP) ELSE path

selectedSegmentType(f) ==
    IF f.segmentType # "" THEN f.segmentType ELSE END_USE_TYPE

bubbleSegmentMatch(record, selectedSeg) ==
    LET normalizedRecord == normalizePath(record.segment)
        normalizedSelected == normalizePath(selectedSeg)
    IN  \/ record.segment = selectedSeg
        \/ normalizedRecord = normalizedSelected
        \/ StartsWith(normalizedRecord, normalizedSelected \o SEP)
        \/ (Includes(normalizedSelected, SEP)
              /\ StartsWith(normalizedRecord, normalizedSelected))

geographyFiltered(dataset, f, geography, businessType) ==
    LET byGeography == SelectSeq(dataset, LAMBDA r : r.geography = geography)
        byBusiness == IF businessType # ALL
                      THEN SelectSeq(byGeography, LAMBDA r : Level1(r) = businessType)
                      ELSE byGeography
    IN  IF Len(f.segments) > 0
        THEN SelectSeq(byBusiness, LAMBDA r :
                 \E i \in 1..Len(f.segments) : bubbleSegmentMatch(r, f.segments[i]))
        ELSE byBusiness

(* data.dimensions.segments[selectedSegmentType]?.hierarchy || {} *)
segmentHierarchy(dims, f) ==
    IF selectedSegmentType(f) \in DOMAIN dims THEN dims[selectedSegmentType(f)]
    ELSE [k \in {} |-> <<>>]

(* a Set filled by forEach, as the sequence of its insertion order *)
RECURSIVE InsertionOrder(_, _, _)
InsertionOrder(q, i, acc) ==
    IF i > Len(q) THEN acc
    ELSE InsertionOrder(q, i + 1, IF SeqIncludes(acc, q[i]) THEN acc ELSE Append(acc, q[i]))

allSegmentsOfType(records, f) ==
    LET ofType == SelectSeq(records, LAMBDA r : r.segment_type = selectedSegmentType(f)) IN
      InsertionOrder([i \in 1..Len(ofType) |-> ofType[i].segment], 1, <<>>)

(* no segment taken for a child *)
childSegments_None(hierarchy) == {}

childSegments(hierarchy) ==
    UNION {{hierarchy[p][i] : i \in 1..Len(hierarchy[p])} : p \in DOMAIN hierarchy}

immediateChildren(records, hierarchy, f) ==
    SelectSeq(allSegmentsOfType(records, f), LAMBDA s : s \notin childSegments(hierarchy))

(* the children alone, without their own descendants *)
getAllDescendants_ChildrenOnly(hierarchy, parentSegment) ==
    IF parentSegment \in DOMAIN hierarchy
    THEN {hierarchy[parentSegment][i] : i \in 1..Len(hierarchy[parentSegment])}
    ELSE {}

(* the elements of the array getAllDescendants returns; only includes() is *)
(* asked of it                                                             *)
RECURSIVE getAllDescendants(_, _)
getAllDescendants(hierarchy, parentSegment) ==
    IF parentSegment \in DOMAIN hierarchy
    THEN UNION {{hierarchy[parentSegment][i]}
                   \cup getAllDescendants(hierarchy, hierarchy[parentSegment][i]) :
                i \in 1..Len(hierarchy[parentSegment])}
    ELSE {}

RECURSIVE SumYear(_, _, _)
SumYear(records, year, i) ==
    IF i > Len(records) THEN 0
    ELSE TimeSeriesValue(records[i], year) + SumYear(records, year, i + 1)

totalMarketValue2024(records) == SumYear(records, baseYear, 1)

segmentRecords(records, hierarchy, f, segment) ==
    LET segmentsToInclude == {segment} \cup getAllDescendants(hierarchy, segment) IN
      SelectSeq(records, LAMBDA r :
          r.segment \in segmentsToInclude /\ r.segment_type = selectedSegmentType(f))

marketShare2024(baseValue, total) ==
    IF total > 0 THEN Rat(baseValue * 100, total) ELSE RatOf(0)

(* the rate left negative when the forecast is below the base *)
calculatedCAGR_NoFloor(baseValue, forecastValue) ==
    IF baseValue > 0 /\ forecastValue > 0
    THEN LET cappedRatio == IF forecastValue >= 100 * baseValue THEN 100 * ROOT_SCALE
                            ELSE (forecastValue * ROOT_SCALE) \div baseValue
             rate == Rat((EighthRoot(cappedRatio) - ROOT_SCALE) * 100, ROOT_SCALE)
         IN  RatMin(rate, RatOf(100))
    ELSE RatOf(0)

(* calculatedCAGR with the Math.max(0, ...) applied where the entry is    *)
(* pushed                                                                 *)
calculatedCAGR(baseValue, forecastValue) ==
    IF baseValue > 0 /\ forecastValue > 0
    THEN LET cappedRatio == IF forecastValue >= 100 * baseValue THEN 100 * ROOT_SCALE
                            ELSE (forecastValue * ROOT_SCALE) \div baseValue
             rate == Rat((EighthRoot(cappedRatio) - ROOT_SCALE) * 100, ROOT_SCALE)
         IN  RatMax(RatOf(0), RatMin(rate, RatOf(100)))
    ELSE RatOf(0)

(* immediateChildren.forEach((segment, index) => ... segmentData.push) *)
RECURSIVE segmentDataFrom(_, _, _, _, _, _)
segmentDataFrom(records, hierarchy, f, children, i, acc) ==
    IF i > Len(children) THEN acc
    ELSE LET recs == segmentRecords(records, hierarchy, f, children[i])
             forecastValue == SumYear(recs, forecastYear, 1)
             baseValue == SumYear(recs, baseYear, 1)
             entry == [segment |-> children[i],
                       baseValue |-> baseValue,
                       forecastValue |-> forecastValue,
                       cagr |-> calculatedCAGR(baseValue, forecastValue),
                       marketShare2024 |->
                           marketShare2024(baseValue, totalMarketValue2024(records)),
                       absoluteGrowth |-> forecastValue - baseValue,
                       index |-> i - 1]
             next == IF Len(recs) = 0 THEN acc
                     ELSE IF forecastValue > 0 /\ baseValue > 0 THEN Append(acc, entry)
                     ELSE acc
         IN  segmentDataFrom(records, hierarchy, f, children, i + 1, next)

segmentData(records, hierarchy, f) ==
    segmentDataFrom(records, hierarchy, f, immediateChildren(records, hierarchy, f),
                    1, <<>>)

(* the quotient left as a fraction of one *)
indexOf_Fraction(value, max) ==
    IF max.n > 0 THEN RatMin(RatOf(100), Rat(value.n * max.d, value.d * max.n))
    ELSE RatOf(0)

(* max > 0 ? Math.min(100, (value / max) * 100) : 0 *)
indexOf(value, max) ==
    IF max.n > 0 THEN RatMin(RatOf(100), RatPercentOf(value, max)) ELSE RatOf(0)

bubblesOf(entries, f, geography) ==
    LET maxCAGR == RatMaxOf([i \in 1..Len(entries) |-> entries[i].cagr])
        maxMarketShare2024 ==
            RatMaxOf([i \in 1..Len(entries) |-> entries[i].marketShare2024])
        maxAbsoluteGrowth ==
            RatMaxOf([i \in 1..Len(entries) |-> RatOf(entries[i].absoluteGrowth)])
    IN  [i \in 1..Len(entries) |->
           LET d == entries[i] IN
             [segment |-> d.segment,
              geography |-> geography,
              segmentType |-> selectedSegmentType(f),
              currentValue |-> d.forecastValue,
              cagr |-> d.cagr,
              marketShare |-> d.marketShare2024,
              absoluteGrowth |-> d.absoluteGrowth,
              colorIndex |-> d.index % 10,
              xIndex |-> indexOf(d.cagr, maxCAGR),
              yIndex |-> indexOf(d.marketShare2024, maxMarketShare2024),
              zIndex |-> indexOf(RatOf(d.absoluteGrowth), maxAbsoluteGrowth)]]

(* the rows left in input order *)
sortByOpportunity_Unsorted(rows) == rows

(* bubbles.sort((a, b) => b.z - a.z): stable, larger z first *)
RECURSIVE insertByOpportunity(_, _)
insertByOpportunity(sorted, row) ==
    IF Len(sorted) = 0 THEN <<row>>
    ELSE IF RatLT(Head(sorted).zIndex, row.zIndex) THEN <<row>> \o sorted
    ELSE <<Head(sorted)>> \o insertByOpportunity(Tail(sorted), row)

RECURSIVE sortFrom(_, _, _)
sortFrom(rows, i, acc) ==
    IF i > Len(rows) THEN acc
    ELSE sortFrom(rows, i + 1, insertByOpportunity(acc, rows[i]))

sortByOpportunity(rows) == sortFrom(rows, 1, <<>>)

filteredBubbles(rows, maxN, minIndex) ==
    LET sorted == sortByOpportunity(rows)
        passing == SelectSeq(sorted, LAMBDA b : RatLE(RatOf(minIndex), b.zIndex))
    IN  IF maxN > 0 /\ Len(passing) > maxN THEN SubSeq(passing, 1, maxN) ELSE passing

EmptyChart == [bubbles |-> <<>>, xLabel |-> "", yLabel |-> ""]

chartDataOf(dataset, dims, f, geography, businessType, maxN, minIndex) ==
    LET records == geographyFiltered(dataset, f, geography, businessType)
        entries == segmentData(records, segmentHierarchy(dims, f), f)
    IN  IF geography = "" \/ selectedSegmentType(f) = "" THEN EmptyChart
        ELSE IF Len(records) = 0 THEN EmptyChart
        ELSE [bubbles |-> IF Len(entries) = 0 THEN <<>>
                          ELSE filteredBubbles(bubblesOf(entries, f, geography),
                                               maxN, minIndex),
              xLabel |-> "CAGR Index",
              yLabel |-> "Market Share Index (2024)"]

----------------------------------------------------------------------------
(* The checked input universe *)

OTHER_TYPE == "By Form"

Rec(geo, level, parent, type, seg, hier, ts) ==
    [geography |-> geo, geography_level |-> level, parent_geography |-> parent,
     segment_type |-> type, segment |-> seg, segment_hierarchy |-> hier,
     time_series |-> ts]

RecordPool ==
    { Rec("India", "global", "", END_USE_TYPE, "B2B > Food", <<"B2B", "Food">>,
          (2024 :> 100) @@ (2025 :> 120)),
      Rec("North India", "region", "India", END_USE_TYPE, "B2B > Food", <<"B2B", "Food">>,
          (2024 :> 50) @@ (2025 :> 60)),
      Rec("South India", "region", "India", END_USE_TYPE, "B2B > Food > Tea",
          <<"B2B", "Food", "Tea">>, (2024 :> 50) @@ (2026 :> 7)),
      Rec("Delhi", "country", "North India", END_USE_TYPE, "B2B > Pharma",
          <<"B2B", "Pharma">>, (2024 :> 3) @@ (2025 :> 4)),
      Rec("India", "global", "", END_USE_TYPE, "B2C > Home", <<>>,
          (2024 :> 10) @@ (2025 :> 20)),
      Rec("India", "global", "", OTHER_TYPE, "B2C > Home", <<>>,
          (2024 :> 30) @@ (2025 :> 40)) }

RECURSIVE SeqsUpTo(_, _)
SeqsUpTo(S, n) ==
    IF n = 0 THEN {<<>>}
    ELSE LET shorter == SeqsUpTo(S, n - 1) IN
           shorter \cup {Append(q, x) : q \in shorter, x \in S}

NoRepeat(q) == \A i, j \in 1..Len(q) : i # j => q[i] # q[j]

RecordLists == SeqsUpTo(RecordPool, MaxRecords)

GeographyNames == {"India", "North India", "South India"}

SegmentNames == {"B2B > Food", "B2B > Food > Tea"}

Selections(S) == {q \in SeqsUpTo(S, MaxSel) : NoRepeat(q)}

FilterStates ==
    [geographies : Selections(GeographyNames),
     segments : Selections(SegmentNames),
     segmentType : {END_USE_TYPE},
     yearRange : {<<2024, 2025>>},
     viewMode : {SEGMENT_MODE, GEOGRAPHY_MODE, MATRIX},
     businessType : {B2B},
     advancedSegments : {<<>>}]
    \cup
    [geographies : {<<>>},
     segments : {<<>>},
     segmentType : {END_USE_TYPE, OTHER_TYPE},
     yearRange : {<<2024, 2025>>},
     viewMode : {SEGMENT_MODE},
     businessType : {B2B, B2C},
     advancedSegments : {<<>>, <<[type |-> END_USE_TYPE, segment |-> "B2B > Food"]>>}]

(* the datasets of the opportunity matrix *)
BubblePool ==
    { Rec("India", "global", "", END_USE_TYPE, "B2B > Food", <<"B2B", "Food">>,
          (2024 :> 100) @@ (2032 :> 200)),
      Rec("India", "global", "", END_USE_TYPE, "B2B > Food > Tea",
          <<"B2B", "Food", "Tea">>, (2024 :> 50) @@ (2032 :> 40)),
      Rec("India", "global", "", END_USE_TYPE, "B2C > Home", <<"B2C", "Home">>,
          (2024 :> 100) @@ (2032 :> 50)),
      Rec("India", "global", "", OTHER_TYPE, "Powder", <<>>,
          (2024 :> 100) @@ (2032 :> 100)),
      Rec("North India", "region", "India", END_USE_TYPE, "B2B > Food",
          <<"B2B", "Food">>, (2024 :> 10) @@ (2032 :> 2000)),
      Rec("India", "global", "", END_USE_TYPE, "B2B > Pharma", <<"B2B", "Pharma">>,
          (2025 :> 5) @@ (2032 :> 10)) }

WideNames ==
    <<"B2B > A", "B2B > B", "B2B > C", "B2B > D", "B2B > E", "B2B > F", "B2B > G",
      "B2B > H">>

WideGrowth == <<100, 90, 90, 80, 70, 60, 20, 50>>

(* WideCount sibling segments of India, base 100, the growths of          *)
(* WideGrowth dealt out of order, with a tie                               *)
WideDataset(k) ==
    [i \in 1..WideCount |->
       Rec("India", "global", "", END_USE_TYPE, WideNames[i], <<"B2B">>,
           (2024 :> 100) @@ (2032 :> 100 + WideGrowth[((i * k) % WideCount) + 1]))]

BubbleDatasets ==
    SeqsUpTo(BubblePool, MaxBubbleRecords) \cup {WideDataset(k) : k \in 1..3}

(* data.dimensions.segments: no hierarchy, a chain Food - Bev - Tea, and   *)
(* a hierarchy in which Tea is reachable from Food through two branches    *)
DimensionChoices ==
    { [t \in {END_USE_TYPE} |-> [k \in {} |-> <<>>]],
      [t \in {END_USE_TYPE} |->
         ("B2B > Food" :> <<"B2B > Food > Bev">>)
         @@ ("B2B > Food > Bev" :> <<"B2B > Food > Tea">>)],
      [t \in {END_USE_TYPE} |->
         ("B2B > Food" :> <<"B2B > Food > Bev", "B2B > Food > Tea">>)
         @@ ("B2B > Food > Bev" :> <<"B2B > Food > Tea">>)] }

BubbleFilterStates ==
    [geographies : {<<>>},
     segments : {<<>>, <<"Food">>},
     segmentType : {END_USE_TYPE},
     yearRange : {<<2024, 2025>>},
     viewMode : {SEGMENT_MODE},
     businessType : {B2B},
     advancedSegments : {<<>>}]

BubbleGeographies == {"India", "North India"}

(* the positions of the two range inputs that are visited *)
MaxBubblesChoices == {0, 5}

MinIndexChoices == {0, 50, 100}

----------------------------------------------------------------------------
(* prepareTableData and prepareWaterfallData, lib/data-processor.ts.       *)
(* A change is a signed integer; growth is an exact fraction.              *)

(* record.cagr, undefined (NULL) when the record carries none *)
CagrField(record) == IF "cagr" \in DOMAIN record THEN record.cagr ELSE [null |-> TRUE]

tableRow(record, f) ==
    LET baseValue == TimeSeriesValue(record, f.yearRange[1])
        forecastValue == TimeSeriesValue(record, f.yearRange[2])
        years == YearsOf(f)
    IN  [geography |-> record.geography,
         segment |-> record.segment,
         baseYear |-> baseValue,
         forecastYear |-> forecastValue,
         cagr |-> CagrField(record),
         growth |-> IF baseValue > 0
                    THEN Rat((forecastValue - baseValue) * 100, baseValue)
                    ELSE RatOf(0),
         timeSeries |-> [i \in 1..Len(years) |-> TimeSeriesValue(record, years[i])]]

prepareTableData(records, f) == [i \in 1..Len(records) |-> tableRow(records[i], f)]

(* the array the rows are pushed to, kept from the call before *)
newWaterfallArray_Kept == waterfallData

(* const waterfallData = [] *)
newWaterfallArray == <<>>

waterfallGroupKey(record, f) ==
    IF f.viewMode = SEGMENT_MODE THEN record.segment ELSE record.geography

(* records.forEach: grouped.set(key, (grouped.get(key) || 0) + endValue - startValue) *)
RECURSIVE groupedChangesFrom(_, _, _, _)
groupedChangesFrom(records, f, i, grouped) ==
    IF i > Len(records) THEN grouped
    ELSE LET record == records[i]
             startValue == TimeSeriesValue(record, f.yearRange[1])
             endValue == TimeSeriesValue(record, f.yearRange[2])
         IN  groupedChangesFrom(records, f, i + 1,
                 MapAdd(grouped, waterfallGroupKey(record, f), endValue - startValue))

(* Array.from(grouped.entries()): the keys in the order of their first set *)
groupedEntries(records, f) ==
    LET grouped == groupedChangesFrom(records, f, 1, EmptyMap)
        keys == InsertionOrder([i \in 1..Len(records) |-> waterfallGroupKey(records[i], f)],
                               1, <<>>)
    IN  [i \in 1..Len(keys) |-> [name |-> keys[i], change |-> grouped[keys[i]]]]

RECURSIVE insertByMagnitude(_, _)
insertByMagnitude(sorted, entry) ==
    IF Len(sorted) = 0 THEN <<entry>>
    ELSE IF Abs(Head(sorted).change) < Abs(entry.change) THEN <<entry>> \o sorted
    ELSE <<Head(sorted)>> \o insertByMagnitude(Tail(sorted), entry)

RECURSIVE sortContributionsFrom(_, _, _)
sortContributionsFrom(entries, i, acc) ==
    IF i > Len(entries) THEN acc
    ELSE sortContributionsFrom(entries, i + 1, insertByMagnitude(acc, entries[i]))

(* the entries left in insertion order *)
sortContributions_Unsorted(entries) == entries

(* .sort((a, b) => Math.abs(b[1]) - Math.abs(a[1])): stable, largest first *)
sortContributions(entries) == sortContributionsFrom(entries, 1, <<>>)

(* the signed change stored for a decline *)
negativeValue_Signed(change) == change

(* value: Math.abs(change) *)
negativeValue(change) == Abs(change)

YearLabel(prefix, year) == prefix \o " (" \o ToString(year) \o ")"

prepareWaterfallData(records, f) ==
    LET startYear == f.yearRange[1]
        endYear == f.yearRange[2]
        startTotal == SumYear(records, startYear, 1)
        endTotal == SumYear(records, endYear, 1)
        sortedContributions == sortContributions(groupedEntries(records, f))
        rising == SelectSeq(sortedContributions, LAMBDA e : e.change > 0)
        falling == SelectSeq(sortedContributions, LAMBDA e : e.change < 0)
    IN  newWaterfallArray
        \o <<[name |-> YearLabel("Start", startYear), value |-> startTotal, type |-> "start"]>>
        \o [i \in 1..Len(rising) |->
              [name |-> rising[i].name, value |-> rising[i].change, type |-> "positive"]]
        \o [i \in 1..Len(falling) |->
              [name |-> falling[i].name, value |-> negativeValue(falling[i].change),
               type |-> "negative"]]
        \o <<[name |-> YearLabel("End", endYear), value |-> endTotal, type |-> "end"]>>

----------------------------------------------------------------------------
(* The dashboard store (zustand).  store is the state object: data,        *)
(* filteredData, filters, isLoading, error, selectedChartGroup.  null is   *)
(* the value NULL.  A ComparisonData keeps the shape of the JSON document. *)

NULL == [null |-> TRUE]

(* exported by ./chart-groups *)
DEFAULT_CHART_GROUP == "DEFAULT_CHART_GROUP"

(* x || fallback for a number *)
OrElse(x, fallback) == IF x = 0 THEN fallback ELSE x

(* Object.keys(data.dimensions.segments)[0]; "" stands for undefined *)
firstSegmentTypeOf(d) ==
    IF d # NULL
    THEN IF Len(d.dimensions.segments) > 0 THEN d.dimensions.segments[1] ELSE ""
    ELSE "By Drug Class"

getDefaultFilters(d) ==
    LET firstSegmentType == firstSegmentTypeOf(d)
        startYear == IF d # NULL THEN OrElse(d.metadata.start_year, 2020) ELSE 2020
        forecastYearOf == IF d # NULL THEN OrElse(d.metadata.forecast_year, 2032) ELSE 2032
    IN  [geographies |-> <<>>,
         segments |-> <<"B2B > Food & Beverage">>,
         segmentType |-> firstSegmentType,
         yearRange |-> <<startYear, forecastYearOf>>,
         dataType |-> "value",
         viewMode |-> SEGMENT_MODE,
         businessType |-> B2B]

(* the callback of records.filter in setData *)
setDataRecordMatch(record, segmentType, businessType) ==
    IF record.segment_type # segmentType THEN FALSE
    ELSE IF segmentType = END_USE_TYPE
         THEN LET segmentParts == Split(record.segment, SEP) IN
                IF Len(segmentParts) > 0 /\ (segmentParts[1] = B2B \/ segmentParts[1] = B2C)
                THEN segmentParts[1] = businessType
                ELSE TRUE
         ELSE LET recordBusinessType == Level1(record) IN
                IF recordBusinessType = B2B \/ recordBusinessType = B2C
                THEN recordBusinessType = businessType
                ELSE TRUE

Depth(segment) == Len(Split(segment, SEP))

(* uniqueSegments.sort((a, b) => depthB - depthA): stable, deepest first *)
RECURSIVE insertByDepth(_, _)
insertByDepth(sorted, segment) ==
    IF Len(sorted) = 0 THEN <<segment>>
    ELSE IF Depth(Head(sorted)) < Depth(segment) THEN <<segment>> \o sorted
    ELSE <<Head(sorted)>> \o insertByDepth(Tail(sorted), segment)

RECURSIVE sortByDepthFrom(_, _, _)
sortByDepthFrom(segments, i, acc) ==
    IF i > Len(segments) THEN acc
    ELSE sortByDepthFrom(segments, i + 1, insertByDepth(acc, segments[i]))

FirstTwo(q) == SubSeq(q, 1, IF Len(q) < 2 THEN Len(q) ELSE 2)

finalSegmentsOf(d, defaultFilters) ==
    LET records == d.data.value.geography_segment_matrix
        matchingRecords ==
            SelectSeq(records, LAMBDA r :
                setDataRecordMatch(r, defaultFilters.segmentType, defaultFilters.businessType))
        uniqueSegments ==
            InsertionOrder([i \in 1..Len(matchingRecords) |-> matchingRecords[i].segment],
                           1, <<>>)
        leafSegments == SelectSeq(uniqueSegments, LAMBDA s : Depth(s) >= 4)
    IN  IF Len(uniqueSegments) > 0
        THEN IF Len(leafSegments) > 0
             THEN FirstTwo(leafSegments)
             ELSE FirstTwo(sortByDepthFrom(uniqueSegments, 1, <<>>))
        ELSE defaultFilters.segments

(* { ...a, ...b } *)
Spread(a, b) ==
    [k \in (DOMAIN a) \cup (DOMAIN b) |-> IF k \in DOMAIN b THEN b[k] ELSE a[k]]

(* the state object given to create() *)
initialStore ==
    [data |-> NULL,
     filteredData |-> <<>>,
     filters |-> getDefaultFilters(NULL),
     isLoading |-> FALSE,
     error |-> NULL,
     selectedChartGroup |-> DEFAULT_CHART_GROUP]

setData(s, d) ==
    LET defaultFilters == getDefaultFilters(d)
        finalSegments == IF d # NULL THEN finalSegmentsOf(d, defaultFilters)
                         ELSE defaultFilters.segments
    IN  Spread(s, [data |-> d,
                   error |-> NULL,
                   filters |-> Spread(s.filters,
                       [segmentType |-> defaultFilters.segmentType,
                        yearRange |-> defaultFilters.yearRange,
                        geographies |-> defaultFilters.geographies,
                        segments |-> finalSegments,
                        businessType |-> defaultFilters.businessType])])

(* the given fields taken as the whole filter state *)
updateFilters_Replace(s, newFilters) == Spread(s, [filters |-> newFilters])

updateFilters(s, newFilters) ==
    Spread(s, [filters |-> Spread(s.filters, newFilters)])

setLoading(s, loading) == Spread(s, [isLoading |-> loading])

setError(s, error) == Spread(s, [error |-> error, isLoading |-> FALSE])

resetFilters(s) == Spread(s, [filters |-> getDefaultFilters(s.data)])

setSelectedChartGroup(s, groupId) == Spread(s, [selectedChartGroup |-> groupId])

----------------------------------------------------------------------------
(* lib/preset-utils.ts: the top regions and countries of the presets.  A   *)
(* Map from geography to a number or to a list of numbers is a sequence of *)
(* entries in the order of their first set; an average is a fraction.      *)

GLOBAL == "Global"

HasCagr(record) == "cagr" \in DOMAIN record

isGlobalName(geography) == geography = INDIA \/ geography = GLOBAL

(* the (geography, number) pairs that a records.forEach hands to its Map *)
pairsOf(records, keep(_), value(_)) ==
    LET kept == SelectSeq(records, keep) IN
      [i \in 1..Len(kept) |-> [geography |-> kept[i].geography, value |-> value(kept[i])]]

RECURSIVE pairSum(_, _, _)
pairSum(pairs, geography, i) ==
    IF i > Len(pairs) THEN 0
    ELSE (IF pairs[i].geography = geography THEN pairs[i].value ELSE 0)
         + pairSum(pairs, geography, i + 1)

RECURSIVE pairCount(_, _, _)
pairCount(pairs, geography, i) ==
    IF i > Len(pairs) THEN 0
    ELSE (IF pairs[i].geography = geography THEN 1 ELSE 0)
         + pairCount(pairs, geography, i + 1)

(* Array.from(map.entries()) *)
entriesOf(pairs) ==
    LET keys == InsertionOrder([i \in 1..Len(pairs) |-> pairs[i].geography], 1, <<>>) IN
      [j \in 1..Len(keys) |->
         [name |-> keys[j],
          sum |-> pairSum(pairs, keys[j], 1),
          count |-> pairCount(pairs, keys[j], 1)]]

RECURSIVE insertByScore(_, _)
insertByScore(sorted, entry) ==
    IF Len(sorted) = 0 THEN <<entry>>
    ELSE IF RatLT(Head(sorted).score, entry.score) THEN <<entry>> \o sorted
    ELSE <<Head(sorted)>> \o insertByScore(Tail(sorted), entry)

RECURSIVE sortByScoreFrom(_, _, _)
sortByScoreFrom(entries, i, acc) ==
    IF i > Len(entries) THEN acc
    ELSE sortByScoreFrom(entries, i + 1, insertByScore(acc, entries[i]))

(* .sort((a, b) => b - a): stable, largest first *)
sortByScore(entries) == sortByScoreFrom(entries, 1, <<>>)

(* .slice(0, topN) for topN >= 0 *)
Slice(q, topN) == SubSeq(q, 1, IF Len(q) < topN THEN Len(q) ELSE topN)

NamesOf(entries) == [i \in 1..Len(entries) |-> entries[i].name]

topNames(scored, topN) == NamesOf(Slice(sortByScore(scored), topN))

matrixOf(d) == d.data.value.geography_segment_matrix

getTopRegionsByMarketValue(d, year, topN) ==
    IF d = NULL THEN <<>>
    ELSE LET records == matrixOf(d)
             regions == d.dimensions.geographies.regions
             byLevel == pairsOf(records,
                          LAMBDA r : ~ isGlobalName(r.geography) /\ r.geography_level = "region",
                          LAMBDA r : TimeSeriesValue(r, year))
             byName == pairsOf(records,
                          LAMBDA r : SeqIncludes(regions, r.geography),
                          LAMBDA r : TimeSeriesValue(r, year))
             regionTotals == entriesOf(IF Len(byLevel) = 0 THEN byName ELSE byLevel)
         IN  topNames([i \in 1..Len(regionTotals) |->
                          [name |-> regionTotals[i].name,
                           score |-> RatOf(regionTotals[i].sum)]], topN)

(* cagrs.reduce((a, b) => a + b, 0) / cagrs.length *)
avgCAGRs(entries) ==
    [i \in 1..Len(entries) |->
       [name |-> entries[i].name, score |-> Rat(entries[i].sum, entries[i].count)]]

getTopRegionsByCAGR(d, topN) ==
    IF d = NULL THEN <<>>
    ELSE LET records == matrixOf(d)
             regions == d.dimensions.geographies.regions
             byLevel == pairsOf(records,
                          LAMBDA r : ~ isGlobalName(r.geography)
                                     /\ r.geography_level = "region" /\ HasCagr(r),
                          LAMBDA r : r.cagr)
             byName == pairsOf(records,
                          LAMBDA r : SeqIncludes(regions, r.geography) /\ HasCagr(r),
                          LAMBDA r : r.cagr)
             regionCAGRs == entriesOf(IF Len(byLevel) = 0 THEN byName ELSE byLevel)
         IN  topNames(avgCAGRs(regionCAGRs), topN)

getTopCountriesByCAGR(d, topN) ==
    IF d = NULL THEN <<>>
    ELSE LET records == matrixOf(d)
             regions == d.dimensions.geographies.regions
             allGeos == d.dimensions.geographies.all_geographies
             countries == SelectSeq(allGeos,
                             LAMBDA geo : geo # INDIA /\ ~ SeqIncludes(regions, geo))
             byLevel == pairsOf(records,
                          LAMBDA r : ~ isGlobalName(r.geography)
                                     /\ r.geography_level = "country" /\ HasCagr(r),
                          LAMBDA r : r.cagr)
             byName == pairsOf(records,
                          LAMBDA r : SeqIncludes(countries, r.geography) /\ HasCagr(r),
                          LAMBDA r : r.cagr)
             countryCAGRs == entriesOf(IF Len(byLevel) = 0 THEN byName ELSE byLevel)
         IN  topNames(avgCAGRs(countryCAGRs), topN)

(* the results of the preset calculations before any of them has run *)
NoCall == [topN |-> 0, names |-> <<>>]

NoPresets == [byMarketValue |-> NoCall, regionsByCAGR |-> NoCall, countriesByCAGR |-> NoCall]

----------------------------------------------------------------------------
(* The chart components.  GroupedBarChart and MultiLineChart each hold   *)
(* one useMemo callback that filters the dataset and prepares its rows.  *)

Init ==
    /\ data \in RecordLists
    /\ filters \in FilterStates
    /\ filtered = <<>>
    /\ barData = <<>>
    /\ lineData = <<>>
    /\ computed = {}
    /\ dimensions = [t \in {} |-> <<>>]
    /\ selectedGeography = INDIA
    /\ selectedBusinessType = ALL
    /\ maxBubbles = 30
    /\ minOpportunityIndex = 0
    /\ chartData = EmptyChart
    /\ waterfallData = <<>>
    /\ tableData = <<>>
    /\ store = initialStore
    /\ presets = NoPresets
    /\ callStack = <<>>
    /\ descendants = <<>>

tableVars == <<waterfallData, tableData>>

storeVars == <<store, presets>>

descentVars == <<callStack, descendants>>

bubbleVars == <<dimensions, selectedGeography, selectedBusinessType,
                maxBubbles, minOpportunityIndex, chartData>>

GroupedBarChartMemo ==
    /\ "barData" \notin computed
    /\ filtered' = filterData(data, filters)
    /\ barData' = prepareGroupedBarData(filtered', filters)
    /\ computed' = computed \cup {"barData"}
    /\ UNCHANGED <<data, filters, lineData, bubbleVars>>
    /\ UNCHANGED <<tableVars, storeVars, descentVars>>

MultiLineChartMemo ==
    /\ "lineData" \notin computed
    /\ filtered' = filterData(data, filters)
    /\ lineData' = prepareLineChartData(filtered', filters)
    /\ computed' = computed \cup {"lineData"}
    /\ UNCHANGED <<data, filters, barData, bubbleVars>>
    /\ UNCHANGED <<tableVars, storeVars, descentVars>>

Next == GroupedBarChartMemo \/ MultiLineChartMemo

Spec == Init /\ [][Next]_vars

----------------------------------------------------------------------------
(* D3BubbleChartIndependent: its four pieces of local state, and chartData *)
(* recomputed by the render that follows each change.                      *)

InitBubble ==
    /\ data \in BubbleDatasets
    /\ dimensions \in DimensionChoices
    /\ filters \in BubbleFilterStates
    /\ selectedGeography = INDIA
    /\ selectedBusinessType = ALL
    /\ maxBubbles = 30
    /\ minOpportunityIndex = 0
    /\ chartData = chartDataOf(data, dimensions, filters, selectedGeography,
                               selectedBusinessType, maxBubbles, minOpportunityIndex)
    /\ filtered = <<>>
    /\ barData = <<>>
    /\ lineData = <<>>
    /\ computed = {}
    /\ waterfallData = <<>>
    /\ tableData = <<>>
    /\ store = initialStore
    /\ presets = NoPresets
    /\ callStack = <<>>
    /\ descendants = <<>>

chartVars == <<filtered, barData, lineData, computed, tableVars, storeVars, descentVars>>

SetSelectedGeography ==
    \E g \in BubbleGeographies :
       /\ selectedGeography' = g
       /\ chartData' = chartDataOf(data, dimensions, filters, g, selectedBusinessType,
                                   maxBubbles, minOpportunityIndex)
       /\ UNCHANGED <<data, dimensions, filters, selectedBusinessType, maxBubbles,
                      minOpportunityIndex, chartVars>>

SetSelectedBusinessType ==
    \E b \in {ALL, B2B, B2C} :
       /\ selectedBusinessType' = b
       /\ chartData' = chartDataOf(data, dimensions, filters, selectedGeography, b,
                                   maxBubbles, minOpportunityIndex)
       /\ UNCHANGED <<data, dimensions, filters, selectedGeography, maxBubbles,
                      minOpportunityIndex, chartVars>>

SetMaxBubbles ==
    \E n \in MaxBubblesChoices :
       /\ maxBubbles' = n
       /\ chartData' = chartDataOf(data, dimensions, filters, selectedGeography,
                                   selectedBusinessType, n, minOpportunityIndex)
       /\ UNCHANGED <<data, dimensions, filters, selectedGeography,
                      selectedBusinessType, minOpportunityIndex, chartVars>>

SetMinOpportunityIndex ==
    \E x \in MinIndexChoices :
       /\ minOpportunityIndex' = x
       /\ chartData' = chartDataOf(data, dimensions, filters, selectedGeography,
                                   selectedBusinessType, maxBubbles, x)
       /\ UNCHANGED <<data, dimensions, filters, selectedGeography,
                      selectedBusinessType, maxBubbles, chartVars>>

NextBubble ==
    \/ SetSelectedGeography
    \/ SetSelectedBusinessType
    \/ SetMaxBubbles
    \/ SetMinOpportunityIndex

SpecBubble == InitBubble /\ [][NextBubble]_vars

----------------------------------------------------------------------------
(* The table and waterfall views next to the two charts: each evaluation   *)
(* filters the dataset and prepares its rows from the filtered records.    *)
(* An evaluation may be repeated, as a render repeats it.                  *)

(* largest dataset of the table and waterfall views *)
MaxViewRecords == 2

ViewPool ==
    { Rec("North India", "region", "India", END_USE_TYPE, "B2B > Food", <<"B2B", "Food">>,
          (2024 :> 50) @@ (2025 :> 60) @@ (2026 :> 55)),
      Rec("South India", "region", "India", END_USE_TYPE, "B2B > Food > Tea",
          <<"B2B", "Food", "Tea">>, (2024 :> 50) @@ (2026 :> 7)),
      Rec("Delhi", "country", "North India", END_USE_TYPE, "B2B > Pharma",
          <<"B2B", "Pharma">>, (2024 :> 3) @@ (2025 :> 40) @@ (2026 :> 1)),
      Rec("North India", "region", "India", END_USE_TYPE, "B2B > Pharma",
          <<"B2B", "Pharma">>, (2024 :> 20) @@ (2025 :> 20) @@ (2026 :> 30)) }

ViewDatasets == SeqsUpTo(ViewPool, MaxViewRecords)

ViewFilterStates ==
    [geographies : {<<>>, <<"North India">>, <<"North India", "South India">>},
     segments : {<<>>},
     segmentType : {END_USE_TYPE},
     yearRange : {<<2024, 2025>>, <<2025, 2026>>, <<2024, 2026>>, <<2025, 2025>>},
     viewMode : {SEGMENT_MODE, GEOGRAPHY_MODE},
     businessType : {B2B},
     advancedSegments : {<<>>}]

InitViews ==
    /\ data \in ViewDatasets
    /\ filters \in ViewFilterStates
    /\ filtered = <<>>
    /\ barData = <<>>
    /\ lineData = <<>>
    /\ waterfallData = <<>>
    /\ tableData = <<>>
    /\ computed = {}
    /\ dimensions = [t \in {} |-> <<>>]
    /\ selectedGeography = INDIA
    /\ selectedBusinessType = ALL
    /\ maxBubbles = 30
    /\ minOpportunityIndex = 0
    /\ chartData = EmptyChart
    /\ store = initialStore
    /\ presets = NoPresets
    /\ callStack = <<>>
    /\ descendants = <<>>

PrepareGroupedBar ==
    /\ filtered' = filterData(data, filters)
    /\ barData' = prepareGroupedBarData(filtered', filters)
    /\ computed' = computed \cup {"barData"}
    /\ UNCHANGED <<data, filters, lineData, tableVars, bubbleVars, storeVars, descentVars>>

PrepareLineChart ==
    /\ filtered' = filterData(data, filters)
    /\ lineData' = prepareLineChartData(filtered', filters)
    /\ computed' = computed \cup {"lineData"}
    /\ UNCHANGED <<data, filters, barData, tableVars, bubbleVars, storeVars, descentVars>>

PrepareWaterfall ==
    /\ filtered' = filterData(data, filters)
    /\ waterfallData' = prepareWaterfallData(filtered', filters)
    /\ computed' = computed \cup {"waterfallData"}
    /\ UNCHANGED <<data, filters, barData, lineData, tableData, bubbleVars, storeVars,
                   descentVars>>

PrepareTable ==
    /\ filtered' = filterData(data, filters)
    /\ tableData' = prepareTableData(filtered', filters)
    /\ computed' = computed \cup {"tableData"}
    /\ UNCHANGED <<data, filters, barData, lineData, waterfallData, bubbleVars, storeVars,
                   descentVars>>

NextViews == PrepareGroupedBar \/ PrepareLineChart \/ PrepareWaterfall \/ PrepareTable

SpecViews == InitViews /\ [][NextViews]_vars

----------------------------------------------------------------------------
(* The store and its six actions.  The documents given to setData and the  *)
(* arguments of the other actions are drawn from small sets.               *)

ComparisonData(startYear, forecastYr, segmentTypes, regionNames, geographyNames, records) ==
    [metadata |-> [start_year |-> startYear, base_year |-> 2024,
                   forecast_year |-> forecastYr],
     dimensions |-> [segments |-> segmentTypes,
                     geographies |-> [regions |-> regionNames,
                                      all_geographies |-> geographyNames]],
     data |-> [value |-> [geography_segment_matrix |-> records]]]

StoreDatasets ==
    { ComparisonData(2020, 2032, <<END_USE_TYPE>>, <<>>, <<>>,
        <<Rec("India", "global", "", END_USE_TYPE, "B2B > Food", <<"B2B", "Food">>,
              (2024 :> 100)),
          Rec("India", "global", "", END_USE_TYPE, "B2B > Food > Bev > Tea",
              <<"B2B", "Food", "Bev", "Tea">>, (2024 :> 40)),
          Rec("India", "global", "", END_USE_TYPE, "B2C > Home > Bev > Tea",
              <<"B2C", "Home", "Bev", "Tea">>, (2024 :> 30)),
          Rec("India", "global", "", END_USE_TYPE, "B2B > Food > Bev > Coffee",
              <<"B2B", "Food", "Bev", "Coffee">>, (2024 :> 20)),
          Rec("India", "global", "", END_USE_TYPE, "B2B > Food > Bev > Juice",
              <<"B2B", "Food", "Bev", "Juice">>, (2024 :> 10))>>),
      ComparisonData(0, 2030, <<OTHER_TYPE, END_USE_TYPE>>, <<>>, <<>>,
        <<Rec("India", "global", "", OTHER_TYPE, "Powder", <<"B2C">>, (2024 :> 5)),
          Rec("India", "global", "", OTHER_TYPE, "Whole", <<>>, (2024 :> 5)),
          Rec("India", "global", "", OTHER_TYPE, "Whole > Seeds", <<"B2B">>, (2024 :> 5)),
          Rec("India", "global", "", END_USE_TYPE, "B2B > Food", <<"B2B", "Food">>,
              (2024 :> 5))>>),
      ComparisonData(2021, 0, <<>>, <<>>, <<>>, <<>>) }

FilterPartials ==
    { [viewMode |-> GEOGRAPHY_MODE],
      [viewMode |-> SEGMENT_MODE],
      [geographies |-> <<"India">>],
      [segments |-> <<>>, businessType |-> B2C],
      [yearRange |-> <<2024, 2028>>, dataType |-> "volume"],
      [t \in {} |-> 0] }

ChartGroupIds == {DEFAULT_CHART_GROUP, "market-analysis"}

(* an error message is kept apart from null by its field *)
ErrorValues == {NULL, [message |-> "Failed to load data"]}

InitStore ==
    /\ store = initialStore
    /\ presets = NoPresets
    /\ data = <<>>
    /\ filters = initialStore.filters
    /\ filtered = <<>>
    /\ barData = <<>>
    /\ lineData = <<>>
    /\ waterfallData = <<>>
    /\ tableData = <<>>
    /\ computed = {}
    /\ dimensions = [t \in {} |-> <<>>]
    /\ selectedGeography = INDIA
    /\ selectedBusinessType = ALL
    /\ maxBubbles = 30
    /\ minOpportunityIndex = 0
    /\ chartData = EmptyChart
    /\ callStack = <<>>
    /\ descendants = <<>>

notStore == <<data, filters, filtered, barData, lineData, computed, tableVars,
               descentVars, bubbleVars, presets>>

SetData(d) ==
    /\ store' = setData(store, d)
    /\ UNCHANGED notStore

UpdateFilters(newFilters) ==
    /\ store' = updateFilters(store, newFilters)
    /\ UNCHANGED notStore

SetLoading(loading) ==
    /\ store' = setLoading(store, loading)
    /\ UNCHANGED notStore

SetError(error) ==
    /\ store' = setError(store, error)
    /\ UNCHANGED notStore

ResetFilters ==
    /\ store' = resetFilters(store)
    /\ UNCHANGED notStore

SetSelectedChartGroup(groupId) ==
    /\ store' = setSelectedChartGroup(store, groupId)
    /\ UNCHANGED notStore

NextStore ==
    \/ \E d \in StoreDatasets : SetData(d)
    \/ \E newFilters \in FilterPartials : UpdateFilters(newFilters)
    \/ \E loading \in BOOLEAN : SetLoading(loading)
    \/ \E error \in ErrorValues : SetError(error)
    \/ ResetFilters
    \/ \E groupId \in ChartGroupIds : SetSelectedChartGroup(groupId)

SpecStore == InitStore /\ [][NextStore]_vars

----------------------------------------------------------------------------
(* The preset calculations applied to the document held by the store.      *)
(* presets keeps, for each of the three functions, the topN of its last    *)
(* call and the names it returned.                                         *)

(* largest record list of a preset document *)
MaxPresetRecords == 2

(* largest topN asked for *)
MaxTopN == 2

WithCagr(record, cagr) ==
    [k \in (DOMAIN record) \cup {"cagr"} |-> IF k = "cagr" THEN cagr ELSE record[k]]

PresetRec(geo, level, value, cagr) ==
    WithCagr(Rec(geo, level, "", END_USE_TYPE, "B2B > Food", <<"B2B", "Food">>,
                 (2024 :> value)), cagr)

PresetPool ==
    { PresetRec("North India", "region", 50, 6),
      PresetRec("South India", "region", 70, 8),
      PresetRec("South India", "region", 10, 3),
      PresetRec("Delhi", "country", 5, 4),
      PresetRec("Kerala", "country", 9, 9),
      PresetRec("India", "global", 100, 7),
      PresetRec("Global", "global", 100, 5),
      PresetRec("East India", "", 20, 2),
      PresetRec("Goa", "", 3, 1),
      Rec("Delhi", "country", "", END_USE_TYPE, "B2B > Food", <<"B2B", "Food">>,
          (2025 :> 8)) }

PresetRegions == <<"North India", "South India", "East India">>

PresetGeographies(globalName) ==
    <<globalName>> \o PresetRegions \o <<"Delhi", "Kerala", "Goa">>

PresetDatasets ==
    { ComparisonData(2020, 2032, <<END_USE_TYPE>>, PresetRegions,
                     PresetGeographies(globalName), records) :
        globalName \in {INDIA, GLOBAL}, records \in SeqsUpTo(PresetPool, MaxPresetRecords) }

TopNChoices == 0..MaxTopN

InitPresets ==
    /\ store \in {initialStore} \cup {setData(initialStore, d) : d \in PresetDatasets}
    /\ presets = NoPresets
    /\ data = <<>>
    /\ filters = initialStore.filters
    /\ filtered = <<>>
    /\ barData = <<>>
    /\ lineData = <<>>
    /\ waterfallData = <<>>
    /\ tableData = <<>>
    /\ computed = {}
    /\ dimensions = [t \in {} |-> <<>>]
    /\ selectedGeography = INDIA
    /\ selectedBusinessType = ALL
    /\ maxBubbles = 30
    /\ minOpportunityIndex = 0
    /\ chartData = EmptyChart
    /\ callStack = <<>>
    /\ descendants = <<>>

notPresets == <<data, filters, filtered, barData, lineData, computed, tableVars,
                descentVars, bubbleVars, store>>

TopRegionsByMarketValue(topN) ==
    /\ presets' = [presets EXCEPT !.byMarketValue =
                      [topN |-> topN,
                       names |-> getTopRegionsByMarketValue(store.data, 2024, topN)]]
    /\ UNCHANGED notPresets

TopRegionsByCAGR(topN) ==
    /\ presets' = [presets EXCEPT !.regionsByCAGR =
                      [topN |-> topN, names |-> getTopRegionsByCAGR(store.data, topN)]]
    /\ UNCHANGED notPresets

TopCountriesByCAGR(topN) ==
    /\ presets' = [presets EXCEPT !.countriesByCAGR =
                      [topN |-> topN, names |-> getTopCountriesByCAGR(store.data, topN)]]
    /\ UNCHANGED notPresets

NextPresets ==
    \/ \E topN \in TopNChoices : TopRegionsByMarketValue(topN)
    \/ \E topN \in TopNChoices : TopRegionsByCAGR(topN)
    \/ \E topN \in TopNChoices : TopCountriesByCAGR(topN)

SpecPresets == InitPresets /\ [][NextPresets]_vars

----------------------------------------------------------------------------
(* getAllDescendants of D3BubbleChartIndependent, call by call.  callStack *)
(* holds one frame per call in progress: its parentSegment, its children,  *)
(* the position of forEach and its local array descendants.  descendants   *)
(* is the array returned by the outermost call.                            *)

(* number of segments of the hierarchies walked *)
MaxHierarchySegments == 4

SegmentChain == <<"A", "A > B", "A > B > C", "D", "D > E", "F">>

HierarchySegments == {SegmentChain[i] : i \in 1..MaxHierarchySegments}

RECURSIVE AscendingSeq(_)
AscendingSeq(S) ==
    IF S = {} THEN <<>>
    ELSE LET least == CHOOSE x \in S : \A y \in S : x <= y IN
           <<SegmentChain[least]>> \o AscendingSeq(S \ {least})

(* for each segment from the i-th on, a set of segments standing after it  *)
RECURSIVE LaterChildren(_)
LaterChildren(i) ==
    IF i > MaxHierarchySegments THEN {<<>>}
    ELSE {<<S>> \o rest : S \in SUBSET ((i + 1)..MaxHierarchySegments),
                          rest \in LaterChildren(i + 1)}

(* the cycle-free parent-to-children mappings: a child stands after its    *)
(* parent in SegmentChain; a segment may have several parents              *)
AcyclicHierarchies ==
    { [p \in {SegmentChain[i] : i \in {j \in 1..MaxHierarchySegments : c[j] # {}}} |->
         AscendingSeq(c[CHOOSE i \in 1..MaxHierarchySegments : SegmentChain[i] = p])] :
      c \in LaterChildren(1) }

DescentFilters ==
    [geographies |-> <<>>, segments |-> <<>>, segmentType |-> END_USE_TYPE,
     yearRange |-> <<2024, 2025>>, viewMode |-> SEGMENT_MODE, businessType |-> B2B,
     advancedSegments |-> <<>>]

(* const children = segmentHierarchy[parentSegment]; <<>> when not an array *)
childrenOf(hierarchy, parentSegment) ==
    IF parentSegment \in DOMAIN hierarchy THEN hierarchy[parentSegment] ELSE <<>>

(* the frame of a call that has just been entered *)
Frame(hierarchy, parentSegment) ==
    [parentSegment |-> parentSegment,
     children |-> childrenOf(hierarchy, parentSegment),
     position |-> 1,
     descendants |-> <<>>]

InitDescent ==
    /\ dimensions \in {[t \in {END_USE_TYPE} |-> h] : h \in AcyclicHierarchies}
    /\ filters = DescentFilters
    /\ \E segment \in HierarchySegments :
          callStack = <<Frame(segmentHierarchy(dimensions, filters), segment)>>
    /\ descendants = <<>>
    /\ data = <<>>
    /\ filtered = <<>>
    /\ barData = <<>>
    /\ lineData = <<>>
    /\ waterfallData = <<>>
    /\ tableData = <<>>
    /\ computed = {}
    /\ selectedGeography = INDIA
    /\ selectedBusinessType = ALL
    /\ maxBubbles = 30
    /\ minOpportunityIndex = 0
    /\ chartData = EmptyChart
    /\ store = initialStore
    /\ presets = NoPresets

notDescent == <<data, filters, filtered, barData, lineData, computed, tableVars, storeVars,
                bubbleVars>>

(* the result of the callee left out of the caller's array *)
pushResult_Dropped(frame, returned) ==
    [frame EXCEPT !.position = @ + 1]

(* descendants.push(...getAllDescendants(child)) and on to the next child *)
pushResult(frame, returned) ==
    [frame EXCEPT !.descendants = @ \o returned, !.position = @ + 1]

(* children.forEach: descendants.push(child), then the recursive call *)
VisitChild ==
    /\ Len(callStack) > 0
    /\ LET top == callStack[Len(callStack)] IN
         /\ top.position <= Len(top.children)
         /\ callStack' =
               Append([callStack EXCEPT ![Len(callStack)] =
                          [top EXCEPT !.descendants = Append(@, top.children[top.position])]],
                      Frame(segmentHierarchy(dimensions, filters),
                            top.children[top.position]))
    /\ UNCHANGED <<descendants, notDescent>>

(* return descendants: to the caller's push, or out of the outermost call *)
Return ==
    /\ Len(callStack) > 0
    /\ LET top == callStack[Len(callStack)] IN
         /\ top.position > Len(top.children)
         /\ IF Len(callStack) > 1
            THEN /\ callStack' =
                       [SubSeq(callStack, 1, Len(callStack) - 1)
                          EXCEPT ![Len(callStack) - 1] =
                             pushResult(callStack[Len(callStack) - 1], top.descendants)]
                 /\ UNCHANGED descendants
            ELSE /\ callStack' = <<>>
                 /\ descendants' = top.descendants
    /\ UNCHANGED notDescent

NextDescent == VisitChild \/ Return

SpecDescent == InitDescent /\ [][NextDescent]_vars

(* the call runs to completion on the JavaScript thread: a step that is    *)
(* possible is eventually taken                                            *)
FairSpecDescent == SpecDescent /\ WF_vars(NextDescent)

----------------------------------------------------------------------------
(* Properties *)

SeqSum(q) == LET RECURSIVE S(_)
                 S(i) == IF i > Len(q) THEN 0 ELSE q[i] + S(i + 1)
             IN  S(1)

(* the sub-list of q at the positions in idx, in order *)
SubList(q, idx) ==
    LET RECURSIVE Pick(_)
        Pick(i) == IF i > Len(q) THEN <<>>
                   ELSE IF i \in idx THEN <<q[i]>> \o Pick(i + 1)
                   ELSE Pick(i + 1)
    IN  Pick(1)

NoSelection(f) ==
    Len(f.geographies) = 0 /\ Len(f.segments) = 0 /\ Len(f.advancedSegments) = 0

(* the business type of a record as the specification words it: level_1  *)
(* when it is B2B/B2C, otherwise the first token of the segment path when *)
(* that is B2B/B2C, otherwise none ("")                                   *)
SpecBusinessType(r) ==
    IF Level1(r) \in {B2B, B2C} THEN Level1(r)
    ELSE IF Split(r.segment, SEP)[1] \in {B2B, B2C} THEN Split(r.segment, SEP)[1]
    ELSE ""

(* the business type the code derives under filter state f: the path      *)
(* token is consulted only for the End-Use*Product Type taxonomy          *)
CodeBusinessType(r, f) ==
    IF Level1(r) \in {B2B, B2C} THEN Level1(r)
    ELSE IF f.segmentType = END_USE_TYPE /\ Split(r.segment, SEP)[1] \in {B2B, B2C}
         THEN Split(r.segment, SEP)[1]
    ELSE ""

(* C1 as stated: with empty geographies and segments selections and no     *)
(* advancedSegments, filterData returns exactly the records whose          *)
(* segment_type equals filters.segmentType and whose business type         *)
(* (level_1, else first path token) equals filters.businessType.           *)
C1_ExactTypeAndBusiness ==
    (computed # {} /\ NoSelection(filters)) =>
        filtered = SelectSeq(data, LAMBDA r :
                      /\ r.segment_type = filters.segmentType
                      /\ SpecBusinessType(r) = filters.businessType)

(* C1 amended: with empty selections and no advancedSegments, filterData   *)
(* returns exactly the records whose segment_type equals                   *)
(* filters.segmentType and whose business type, if it has one, equals      *)
(* filters.businessType; the business type is level_1 when that is         *)
(* B2B/B2C, otherwise the first path token when that is B2B/B2C and        *)
(* filters.segmentType is 'By End-Use*Product Type'; a record with no      *)
(* business type so derived is kept.                                       *)
C1_AmendedTypeAndBusiness ==
    (computed # {} /\ NoSelection(filters)) =>
        filtered = SelectSeq(data, LAMBDA r :
                      /\ r.segment_type = filters.segmentType
                      /\ CodeBusinessType(r, filters) \in {"", filters.businessType})

(* a run where filterData kept one record and dropped another on the      *)
(* business-type axis alone                                               *)
C1_Witness ==
    /\ computed # {}
    /\ NoSelection(filters)
    /\ Len(filtered) = 1
    /\ Len(data) = 2
    /\ \A i \in 1..Len(data) : data[i].segment_type = filters.segmentType
    /\ \E i \in 1..Len(data) : CodeBusinessType(data[i], filters) = filters.businessType

ColumnsAdd(whole, partA, partB) ==
    /\ Len(whole) = Len(partA)
    /\ Len(whole) = Len(partB)
    /\ \A y \in 1..Len(whole) :
         LET rowW == whole[y]
             rowA == partA[y]
             rowB == partB[y]
         IN  /\ rowW.year = rowA.year
             /\ rowW.year = rowB.year
             /\ \A k \in (DOMAIN rowW.cols) \cup (DOMAIN rowA.cols)
                          \cup (DOMAIN rowB.cols) :
                  Get(rowW.cols, k) = Get(rowA.cols, k) + Get(rowB.cols, k)

(* ColumnsAdd is symmetric in its two parts, so the splits are taken with *)
(* the first record in the first part                                     *)
AdditiveOver(records, f) ==
    LET whole == prepareGroupedBarData(records, f) IN
      \A idx \in {x \in SUBSET (1..Len(records)) : Len(records) > 0 => 1 \in x} :
         LET partA == prepareGroupedBarData(SubList(records, idx), f)
             partB == prepareGroupedBarData(SubList(records, (1..Len(records)) \ idx), f)
         IN  ColumnsAdd(whole, partA, partB)

(* C2: for every split of the record list into two sub-lists, every year   *)
(* and every series key, the value prepareGroupedBarData gives for the     *)
(* whole list is the sum of the values it gives for the two parts (an      *)
(* absent key counting as 0); checked for the list the chart passes and    *)
(* for the unfiltered list, in the state the bar chart's memo leaves (the  *)
(* line chart's memo changes none of data, filters and filtered, so the    *)
(* states after it hold the same lists).                                   *)
C2_AdditiveOverPartitions ==
    computed = {"barData"} =>
        /\ AdditiveOver(filtered, filters)
        /\ (data # filtered => AdditiveOver(data, filters))

(* two records that share a series key, with positive values, aggregated *)
C2_Witness ==
    /\ "barData" \in computed
    /\ Len(filtered) = 2
    /\ \E k \in DOMAIN barData[1].cols :
         barData[1].cols[k] = TimeSeriesValue(filtered[1], barData[1].year)
                              + TimeSeriesValue(filtered[2], barData[1].year)
    /\ TimeSeriesValue(filtered[1], barData[1].year) > 0
    /\ TimeSeriesValue(filtered[2], barData[1].year) > 0

(* entry.dataKey.split('::') of the chart: the primary part of a key *)
PrimaryOf(key) == Split(key, KEYSEP)[1]

StackedKeys(cols) == {k \in DOMAIN cols : Includes(k, KEYSEP)}

(* the unstacked branch run over the same records and selections, keyed by *)
(* the dimension that is primary in the stacked output: geography for      *)
(* segment-mode stacking, segment for geography-mode stacking              *)
unstackedByPrimary(records, f, year) ==
    unstackedDataPoint(records,
                       [f EXCEPT !.viewMode = IF f.viewMode = SEGMENT_MODE
                                              THEN GEOGRAPHY_MODE ELSE SEGMENT_MODE],
                       year)

(* C3: in stacked output, for every primary key and year the sum of the   *)
(* columns with that primary key equals the value the unstacked           *)
(* aggregation of the same records gives for that primary key and year.   *)
C3_StackedSumsEqualUnstacked ==
    ("barData" \in computed /\ needsStacking(filters)) =>
        \A y \in 1..Len(barData) :
           LET cols == barData[y].cols
               plain == unstackedByPrimary(filtered, filters, barData[y].year)
           IN  \A p \in {PrimaryOf(k) : k \in StackedKeys(cols)} :
                  SumOver(cols, {k \in StackedKeys(cols) : PrimaryOf(k) = p})
                    = Get(plain, p)

(* C4: in segment-mode and geography-mode the rows carry stacked          *)
(* ('primary::secondary') keys if and only if both the geographies and    *)
(* the segments selection hold more than one entry, which is the chart's  *)
(* isStacked decision.                                                     *)
C4_StackedIffBothMultiple ==
    ("barData" \in computed /\ filters.viewMode \in {SEGMENT_MODE, GEOGRAPHY_MODE}) =>
        \A y \in 1..Len(barData) :
           (StackedKeys(barData[y].cols) # {}) <=> isStacked(filters)

(* a record of a child geography of India: a region, or a state of a region *)
IsChildOfIndia(r) ==
    /\ r.geography # INDIA
    /\ (r.parent_geography = INDIA \/ r.geography_level \in {"region", "country"})

(* the sum of value(i) over the positions i of records that satisfy keep(i) *)
SumWhere(records, keep(_), value(_)) ==
    SeqSum([i \in 1..Len(records) |-> IF keep(i) THEN value(i) ELSE 0])

ChildSum(records, f, year) ==
    SumWhere(records,
             LAMBDA i : IsChildOfIndia(records[i]) /\ rollupSegmentMatch(records[i], f.segments),
             LAMBDA i : TimeSeriesValue(records[i], year))

(* C5: with 'India' selected and a non-empty segments selection, the      *)
(* 'India' series entry of every year equals the sum of that year's       *)
(* values of the child-geography records that match the selected          *)
(* segments, each counted once and nothing else added.                    *)
C5_IndiaEntryIsChildSum ==
    ("barData" \in computed /\ hasIndia(filters) /\ Len(filters.segments) > 0
       /\ filters.viewMode # SEGMENT_MODE
       /\ \E i \in 1..Len(filtered) :
             IsChildOfIndia(filtered[i]) /\ rollupSegmentMatch(filtered[i], filters.segments)) =>
        \A y \in 1..Len(barData) :
           Get(barData[y].cols, INDIA) = ChildSum(filtered, filters, barData[y].year)

(* C6: with 'India' selected together with child geographies (and a       *)
(* segment selected, so that the rollup runs), every selected child       *)
(* geography that has records keeps its own series entry in the           *)
(* geography-keyed rows, carrying the sum of its own records.             *)
C6_ChildrenKeepOwnEntry ==
    ("barData" \in computed /\ hasIndia(filters) /\ filters.viewMode = GEOGRAPHY_MODE
       /\ Len(filters.segments) > 0 /\ ~ needsStacking(filters)) =>
        \A g \in {filters.geographies[i] : i \in 1..Len(filters.geographies)} \ {INDIA} :
           (\E i \in 1..Len(filtered) : filtered[i].geography = g) =>
               \A y \in 1..Len(barData) :
                  /\ g \in DOMAIN barData[y].cols
                  /\ barData[y].cols[g] =
                       SumWhere(filtered, LAMBDA i : filtered[i].geography = g,
                                LAMBDA i : TimeSeriesValue(filtered[i], barData[y].year))

(* the records that are not of a child geography of the selected rollup parent *)
NonChild(records, f) ==
    SelectSeq(records, LAMBDA r : r.geography \notin childGeographies(records, f))

(* C7: in every view mode, in the bar and in the line aggregation, an     *)
(* empty segments selection means the rollup adds nothing: the rows are   *)
(* those prepared from the records outside the child geographies.         *)
C7_NoRollupWithoutSegments ==
    Len(filters.segments) = 0 =>
        /\ "barData" \in computed =>
              barData = prepareGroupedBarData(NonChild(filtered, filters), filters)
        /\ "lineData" \in computed =>
              lineData = prepareLineChartData(NonChild(filtered, filters), filters)

SpecMatches(recordPath, selectedPath) ==
    \/ recordPath = selectedPath
    \/ StartsWith(recordPath, selectedPath \o SEP)
    \/ StartsWith(selectedPath, recordPath \o SEP)

SameValues(rowsA, rowsB) ==
    /\ Len(rowsA) = Len(rowsB)
    /\ \A y \in 1..Len(rowsA) :
          \A k \in (DOMAIN rowsA[y].cols) \cup (DOMAIN rowsB[y].cols) :
             Get(rowsA[y].cols, k) = Get(rowsB[y].cols, k)

(* C8: in the segment-keyed aggregation with a non-empty segments         *)
(* selection, a record whose path is neither equal to, a descendant of,   *)
(* nor an ancestor of a selected segment contributes to no series key:    *)
(* the rows carry the same values as the rows prepared without such       *)
(* records.                                                               *)
C8_UnmatchedExcluded ==
    ("barData" \in computed /\ Len(filters.segments) > 0
       /\ filters.viewMode = SEGMENT_MODE) =>
        SameValues(barData,
                   prepareGroupedBarData(
                      SelectSeq(filtered, LAMBDA r :
                         \E j \in 1..Len(filters.segments) :
                            SpecMatches(r.segment, filters.segments[j])),
                      filters))

(* the selected entries a record hits, by the matching of the branch that *)
(* buckets it                                                             *)
HitsOf(r, f) ==
    {j \in 1..Len(f.segments) :
        IF needsStacking(f) THEN stackedSegmentHit(r, f.segments[j])
        ELSE unstackedSegmentHit(r, f.segments[j])}

MinOf(S) == CHOOSE x \in S : \A z \in S : x <= z

(* the segment a series key names: the whole key when unstacked, the      *)
(* part after '::' in segment-mode stacking, the part before it in        *)
(* geography-mode stacking                                                *)
SegmentOfKey(f, k) ==
    IF ~ needsStacking(f) THEN k
    ELSE IF f.viewMode = SEGMENT_MODE THEN Split(k, KEYSEP)[2]
    ELSE Split(k, KEYSEP)[1]

(* the record is bucketed by segment and is not left to the rollup *)
BucketedBySegment(r, records, f) ==
    /\ (needsStacking(f) \/ f.viewMode = SEGMENT_MODE)
    /\ r.geography \notin childGeographies(records, f)

C10_SymmetricEverywhere ==
    "barData" \in computed =>
        \A i \in 1..Len(filtered), j \in 1..Len(filters.segments) :
           LET r == filtered[i]
               s == filters.segments[j]
           IN  (StartsWith(r.segment, s \o SEP) \/ StartsWith(s, r.segment \o SEP)) =>
                  /\ filterSegmentMatch(r, s)
                  /\ stackedSegmentHit(r, s)
                  /\ unstackedSegmentHit(r, s)
                  /\ rollupSegmentMatch(r, <<s>>)
                  /\ (filters.viewMode = SEGMENT_MODE /\ ~ needsStacking(filters)
                        /\ Len(filters.segments) = 1 /\ ~ hasIndia(filters)) =>
                         \A y \in 1..Len(barData) : r.segment \notin DOMAIN barData[y].cols

(* the record passes the geography, segment-type and business-type tests *)
PassesOtherAxes(r, f) ==
    /\ isGeographyMatch(r.geography, f.geographies)
    /\ r.segment_type = f.segmentType
    /\ businessTypeMatch(r, f)

(* the segment a column names: a key without '::' is a segment-mode      *)
(* key, the segment itself                                               *)
SegmentOfColumn(f, k) ==
    IF Includes(k, KEYSEP) THEN SegmentOfKey(f, k) ELSE k

(* every positive column of the rows names segment p, and each year in    *)
(* which the record has a positive value has such a column                *)
ResolvedTo(rows, r, f, p) ==
    \A y \in 1..Len(rows) :
       /\ \A k \in DOMAIN rows[y].cols :
             rows[y].cols[k] > 0 => SegmentOfColumn(f, k) = p
       /\ TimeSeriesValue(r, rows[y].year) > 0 =>
             \E k \in DOMAIN rows[y].cols : rows[y].cols[k] > 0

(* C11: segment matching is reflexive.  When the selection is [p] and a   *)
(* record of segment p passes the geography, segment-type and             *)
(* business-type tests, filterData keeps it, every find over the          *)
(* selection returns p for it, and wherever the series key carries a      *)
(* segment the record's value lies in columns of segment p and in no      *)
(* other: in the bar rows prepared from it alone and in the segment-mode  *)
(* line rows.                                                             *)
C11_Reflexive ==
    computed # {} =>
        \A i \in 1..Len(data) :
           LET r == data[i]
               alone == prepareGroupedBarData(<<r>>, filters)
               line == prepareLineChartData(<<r>>, filters)
           IN  (filters.segments = <<r.segment>> /\ PassesOtherAxes(r, filters)) =>
                  /\ SeqIncludes(filtered, r)
                  /\ filterSegmentMatch(r, r.segment)
                  /\ findStackedSegment(r, filters.segments) = 1
                  /\ findUnstackedSegment(r, filters.segments) = 1
                  /\ rollupSegmentMatch(r, filters.segments)
                  /\ (needsStacking(filters) \/ filters.viewMode = SEGMENT_MODE) =>
                        ResolvedTo(alone, r, filters, r.segment)
                  /\ filters.viewMode = SEGMENT_MODE =>
                        ResolvedTo(line, r, filters, r.segment)

(* the bar rows of a stacked run hold a positive column of segment p for  *)
(* a kept record of segment p under the selection [p]                     *)
C11_Witness ==
    /\ "barData" \in computed
    /\ needsStacking(filters)
    /\ \E i \in 1..Len(filtered) :
          /\ filters.segments = <<filtered[i].segment>>
          /\ TimeSeriesValue(filtered[i], barData[1].year) > 0
          /\ \E k \in DOMAIN barData[1].cols :
                /\ barData[1].cols[k] > 0
                /\ SegmentOfColumn(filters, k) = filtered[i].segment

(* C12: filterData returns a subsequence of its input: the records that   *)
(* satisfy the predicate, each once, unaltered and in input order; it is  *)
(* the empty list when no record satisfies the predicate.                 *)
C12_OrderPreservingSubsequence ==
    computed # {} =>
        LET kept == {i \in 1..Len(data) : filterPredicate(data[i], filters)} IN
          /\ filtered = SubList(data, kept)
          /\ Len(filtered) = Cardinality(kept)
          /\ \A i \in 1..Len(filtered) : SeqIncludes(data, filtered[i])
          /\ kept = {} => filtered = <<>>

(* two different records, both kept, so that their order shows *)
C12_Witness ==
    /\ computed # {}
    /\ Len(data) = 2
    /\ data[1] # data[2]
    /\ Len(filtered) = 2
    /\ filtered[1] = data[1]

(* some record can contribute to the column of (geo, seg) *)
Contributes(records, geo, seg) ==
    \E i \in 1..Len(records) :
       /\ geographyHit(records[i].geography, geo)
       /\ stackedSegmentHit(records[i], seg)

(* C13: in stacked output every year row has a column for every pair of  *)
(* a selected geography and a selected segment, the column is 0 when no   *)
(* record contributes to the pair, and all year rows have the same set    *)
(* of columns.                                                            *)
C13_StackedZeroFill ==
    ("barData" \in computed /\ needsStacking(filters)) =>
        \A y \in 1..Len(barData) :
           /\ DOMAIN barData[y].cols = DOMAIN barData[1].cols
           /\ \A i \in 1..Len(filters.geographies), j \in 1..Len(filters.segments) :
                 LET k == stackedKey(filters, filters.geographies[i], filters.segments[j]) IN
                   /\ k \in DOMAIN barData[y].cols
                   /\ ~ Contributes(filtered, filters.geographies[i], filters.segments[j])
                        => barData[y].cols[k] = 0

(* a stacked row with a positive column next to the zero column of a      *)
(* selected pair that no record contributes to                            *)
C13_Witness ==
    /\ "barData" \in computed
    /\ needsStacking(filters)
    /\ \E k \in DOMAIN barData[1].cols : barData[1].cols[k] > 0
    /\ \E i \in 1..Len(filters.geographies), j \in 1..Len(filters.segments) :
          /\ ~ Contributes(filtered, filters.geographies[i], filters.segments[j])
          /\ barData[1].cols[stackedKey(filters, filters.geographies[i],
                                        filters.segments[j])] = 0

----------------------------------------------------------------------------
(* Properties of the opportunity matrix *)

BubbleRecords ==
    geographyFiltered(data, filters, selectedGeography, selectedBusinessType)

BubbleHierarchy == segmentHierarchy(dimensions, filters)

BubbleEntries == segmentData(BubbleRecords, BubbleHierarchy, filters)

(* the rows before sorting, threshold and truncation *)
ComputedRows ==
    IF Len(BubbleEntries) = 0 THEN <<>>
    ELSE bubblesOf(BubbleEntries, filters, selectedGeography)

InIndexRange(x) == RatLE(RatOf(0), x) /\ RatLE(x, RatOf(100))

(* the greatest value of the metric over the entries *)
MaxOf(entries, metric(_)) ==
    RatMaxOf([i \in 1..Len(entries) |-> metric(entries[i])])

MaxOverEntries(metric(_)) == MaxOf(BubbleEntries, metric)

CagrOf(e) == e.cagr

ShareOf(e) == e.marketShare2024

GrowthOf(e) == RatOf(e.absoluteGrowth)

(* the base-year value of a row: currentValue - absoluteGrowth *)
BaseOf(b) == b.currentValue - b.absoluteGrowth

(* C14: every index of every row computed for the opportunity matrix     *)
(* lies in [0, 100], rows of segments whose forecast is below their base  *)
(* included, and when the maximum of a metric is zero that metric's index *)
(* is 0 in every row.                                                     *)
C14_IndicesInRange ==
    LET entries == BubbleEntries
        rows == IF Len(entries) = 0 THEN <<>>
                ELSE bubblesOf(entries, filters, selectedGeography)
    IN  Len(entries) > 0 =>
          LET maxCagr == MaxOf(entries, CagrOf)
              maxShare == MaxOf(entries, ShareOf)
              maxGrowth == MaxOf(entries, GrowthOf)
          IN  \A i \in 1..Len(rows) :
                 /\ InIndexRange(rows[i].xIndex)
                 /\ InIndexRange(rows[i].yIndex)
                 /\ InIndexRange(rows[i].zIndex)
                 /\ maxCagr.n = 0 => rows[i].xIndex = RatOf(0)
                 /\ maxShare.n = 0 => rows[i].yIndex = RatOf(0)
                 /\ maxGrowth.n = 0 => rows[i].zIndex = RatOf(0)

(* the rows of the entries that hold the maximum of a metric have the     *)
(* index top(maximum) for that metric                                     *)
MaximaHaveIndex(top(_)) ==
    LET entries == BubbleEntries
        rows == IF Len(entries) = 0 THEN <<>>
                ELSE bubblesOf(entries, filters, selectedGeography)
    IN  Len(entries) > 0 =>
          LET maxCagr == MaxOf(entries, CagrOf)
              maxShare == MaxOf(entries, ShareOf)
              maxGrowth == MaxOf(entries, GrowthOf)
          IN  \A i \in 1..Len(entries) :
                 /\ CagrOf(entries[i]) = maxCagr => rows[i].xIndex = top(maxCagr)
                 /\ ShareOf(entries[i]) = maxShare => rows[i].yIndex = top(maxShare)
                 /\ GrowthOf(entries[i]) = maxGrowth => rows[i].zIndex = top(maxGrowth)

Always100(max) == RatOf(100)

HundredWhenPositive(max) == IF max.n > 0 THEN RatOf(100) ELSE RatOf(0)

(* C15 as stated: for each of the three metrics, the child holding the    *)
(* maximum raw value of the metric has index exactly 100.                 *)
C15_MaximumHasIndex100 == MaximaHaveIndex(Always100)

(* C15 amended: among the children that get a row (positive base and      *)
(* forecast values), the child holding the maximum raw value of a metric  *)
(* has index exactly 100 when that maximum is positive, and index 0 when  *)
(* it is not.                                                             *)
C15_AmendedMaximumIndex == MaximaHaveIndex(HundredWhenPositive)

(* two rows with different values of every metric, the maxima positive:   *)
(* the top row of the chart holds the largest growth and has index 100,   *)
(* the other row a smaller index                                          *)
C15_Witness ==
    /\ Len(chartData.bubbles) >= 2
    /\ MaxOverEntries(GrowthOf).n > 0
    /\ MaxOverEntries(CagrOf).n > 0
    /\ GrowthOf(BubbleEntries[1]) # GrowthOf(BubbleEntries[2])
    /\ chartData.bubbles[1].zIndex = RatOf(100)
    /\ RatLT(chartData.bubbles[2].zIndex, RatOf(100))

(* C16: the CAGR of every row of chartData lies in [0, 100].  A row       *)
(* exists only when base and forecast are both positive; the growth       *)
(* ratio is capped at 100 before the root is taken, so a row that grew    *)
(* hundredfold or more carries the rate of a hundredfold growth; a row    *)
(* that did not grow carries 0.                                           *)
C16_CagrInRange ==
    \A i \in 1..Len(chartData.bubbles) :
       LET b == chartData.bubbles[i] IN
         /\ RatLE(RatOf(0), b.cagr)
         /\ RatLE(b.cagr, RatOf(100))
         /\ BaseOf(b) > 0
         /\ b.currentValue > 0
         /\ b.currentValue >= 100 * BaseOf(b) => b.cagr = calculatedCAGR(1, 100)
         /\ b.currentValue <= BaseOf(b) => b.cagr = RatOf(0)

(* a row that grew more than hundredfold and carries the capped rate,     *)
(* between 77 and 78 percent                                              *)
C16_Witness ==
    \E i \in 1..Len(chartData.bubbles) :
       LET b == chartData.bubbles[i] IN
         /\ b.currentValue > 100 * BaseOf(b)
         /\ RatLT(RatOf(77), b.cagr)
         /\ RatLT(b.cagr, RatOf(78))

(* the sum of value(r) over the records r of the list that satisfy keep,  *)
(* each position counted once                                             *)
SumRecords(records, keep(_), value(_)) ==
    SeqSum([i \in 1..Len(records) |->
               IF keep(records[i]) THEN value(records[i]) ELSE 0])

OfSelectedType(r) == r.segment_type = selectedSegmentType(filters)

BaseYearValue(r) == TimeSeriesValue(r, baseYear)

ForecastYearValue(r) == TimeSeriesValue(r, forecastYear)

(* C17: the market share of every row is its base-year value over the     *)
(* sum of the base-year values of the records of the selected segment     *)
(* type in the selected geography, times 100; records of other segment    *)
(* types do not enter the sum, and a sole segment has market share 100.   *)
C17_MarketShareOverSelectedType ==
    LET total == SumRecords(BubbleRecords, OfSelectedType, BaseYearValue) IN
      \A i \in 1..Len(chartData.bubbles) :
         LET b == chartData.bubbles[i] IN
           /\ b.marketShare = Rat(BaseOf(b) * 100, total)
           /\ Cardinality({BubbleRecords[j].segment : j \in
                  {k \in 1..Len(BubbleRecords) : OfSelectedType(BubbleRecords[k])}}) = 1
                => b.marketShare = RatOf(100)

(* the segments one step below a set of segments in the hierarchy *)
StepBelow(hierarchy, S) ==
    UNION {{hierarchy[p][i] : i \in 1..Len(hierarchy[p])} : p \in S \cap DOMAIN hierarchy}

(* the segment and everything below it, as a least fixed point *)
RECURSIVE Subtree(_, _)
Subtree(hierarchy, S) ==
    LET next == S \cup StepBelow(hierarchy, S) IN
      IF next = S THEN S ELSE Subtree(hierarchy, next)

(* C18: the forecast and base values of every row are the sums, over the  *)
(* records of the selected type whose segment is the child or one of its  *)
(* transitive descendants, of the record's value for the year, each       *)
(* record counted once however many branches lead to its segment.         *)
C18_AggregatesSubtreeOnce ==
    \A i \in 1..Len(chartData.bubbles) :
       LET b == chartData.bubbles[i]
           below == Subtree(BubbleHierarchy, {b.segment})
           inSubtree(r) == OfSelectedType(r) /\ r.segment \in below
       IN  /\ b.currentValue = SumRecords(BubbleRecords, inSubtree, ForecastYearValue)
           /\ BaseOf(b) = SumRecords(BubbleRecords, inSubtree, BaseYearValue)

(* a row that gathers the record of a descendant reachable through two    *)
(* branches, as a child and as a child of a child                         *)
C18_Witness ==
    \E i \in 1..Len(chartData.bubbles), j \in 1..Len(BubbleRecords) :
       LET b == chartData.bubbles[i]
           r == BubbleRecords[j]
           children == StepBelow(BubbleHierarchy, {b.segment})
       IN  /\ r.segment # b.segment
           /\ r.segment \in children
           /\ r.segment \in StepBelow(BubbleHierarchy, children)
           /\ ForecastYearValue(r) > 0
           /\ b.currentValue > ForecastYearValue(r)

(* C19: the immediate children are exactly the segments of the selected   *)
(* type present in the filtered records that are not listed as a child    *)
(* of any segment of the hierarchy, and every row of chartData is the     *)
(* row of one of them.                                                    *)
C19_ImmediateChildrenAreRoots ==
    LET present == {BubbleRecords[j].segment : j \in
                       {k \in 1..Len(BubbleRecords) : OfSelectedType(BubbleRecords[k])}}
        listed == StepBelow(BubbleHierarchy, DOMAIN BubbleHierarchy)
        children == immediateChildren(BubbleRecords, BubbleHierarchy, filters)
    IN  /\ {children[i] : i \in 1..Len(children)} = present \ listed
        /\ NoRepeat(children)
        /\ \A i \in 1..Len(chartData.bubbles) :
              chartData.bubbles[i].segment \in present \ listed

(* records of a root and of a segment listed as a child: one row, the     *)
(* root's                                                                 *)
C19_Witness ==
    /\ Len(chartData.bubbles) = 1
    /\ \E j \in 1..Len(BubbleRecords) :
          /\ OfSelectedType(BubbleRecords[j])
          /\ BubbleRecords[j].segment
                \in StepBelow(BubbleHierarchy, DOMAIN BubbleHierarchy)
    /\ chartData.bubbles[1].segment
          \notin StepBelow(BubbleHierarchy, DOMAIN BubbleHierarchy)

(* C20: the rows of chartData are in non-increasing order of opportunity  *)
(* index, each has an index at or above minOpportunityIndex, there are at *)
(* most maxBubbles of them when maxBubbles > 0, and they are the leading  *)
(* rows of the qualifying ones: all of them when maxBubbles is 0 or not   *)
(* exceeded, otherwise maxBubbles rows none of which has a lower index    *)
(* than a qualifying row left out.                                        *)
C20_SortedThresholdTruncate ==
    LET result == chartData.bubbles
        rows == ComputedRows
        qualifying == {i \in 1..Len(rows) :
                          RatLE(RatOf(minOpportunityIndex), rows[i].zIndex)}
        returned == {i \in 1..Len(rows) : SeqIncludes(result, rows[i])}
    IN  /\ \A i \in 1..Len(result) - 1 : RatLE(result[i + 1].zIndex, result[i].zIndex)
        /\ \A i \in 1..Len(result) :
              RatLE(RatOf(minOpportunityIndex), result[i].zIndex)
        /\ maxBubbles > 0 => Len(result) <= maxBubbles
        /\ returned \subseteq qualifying
        /\ Len(result) = Cardinality(returned)
        /\ Len(result) = IF maxBubbles > 0 /\ Cardinality(qualifying) > maxBubbles
                         THEN maxBubbles ELSE Cardinality(qualifying)
        /\ \A q \in qualifying \ returned, i \in returned :
              RatLE(rows[q].zIndex, rows[i].zIndex)

(* more qualifying rows than maxBubbles, computed out of order, with a    *)
(* row below the threshold as well: the chart is cut to maxBubbles rows   *)
C20_Witness ==
    LET rows == ComputedRows IN
      /\ maxBubbles > 0
      /\ minOpportunityIndex > 0
      /\ Len(chartData.bubbles) = maxBubbles
      /\ Cardinality({i \in 1..Len(rows) :
                         RatLE(RatOf(minOpportunityIndex), rows[i].zIndex)}) > maxBubbles
      /\ \E i \in 1..Len(rows) : RatLT(rows[i].zIndex, RatOf(minOpportunityIndex))
      /\ \E i \in 1..Len(rows) - 1 : RatLT(rows[i].zIndex, rows[i + 1].zIndex)


----------------------------------------------------------------------------
(* The waterfall view *)

RowsOfType(rows, t) == SelectSeq(rows, LAMBDA r : r.type = t)

ValueSum(rows) == SeqSum([i \in 1..Len(rows) |-> rows[i].value])

StartYearValue(r) == TimeSeriesValue(r, filters.yearRange[1])

EndYearValue(r) == TimeSeriesValue(r, filters.yearRange[2])

EveryRecord(r) == TRUE

(* C21: in the waterfall rows the values of the 'positive' rows minus the  *)
(* values of the 'negative' rows equal the value of the 'end' row minus    *)
(* the value of the 'start' row.                                           *)
C21_WaterfallConservation ==
    "waterfallData" \in computed =>
        LET starts == RowsOfType(waterfallData, "start")
            ends == RowsOfType(waterfallData, "end")
        IN  /\ Len(starts) = 1
            /\ Len(ends) = 1
            /\ ValueSum(RowsOfType(waterfallData, "positive"))
                 - ValueSum(RowsOfType(waterfallData, "negative"))
               = ends[1].value - starts[1].value

(* a waterfall with a rise, a decline and a net change *)
C21_Witness ==
    /\ "waterfallData" \in computed
    /\ Len(RowsOfType(waterfallData, "positive")) > 0
    /\ Len(RowsOfType(waterfallData, "negative")) > 0
    /\ waterfallData[1].value # waterfallData[Len(waterfallData)].value

TypeRank(t) == IF t = "start" THEN 1 ELSE IF t = "positive" THEN 2
               ELSE IF t = "negative" THEN 3 ELSE 4

(* C22: the waterfall rows are the start row, the positive rows, the       *)
(* negative rows and the end row in this order; the start value is the sum *)
(* of the start-year values of the records and the end value the sum of    *)
(* their end-year values; within the positive rows and within the negative *)
(* rows the values do not increase.                                        *)
C22_WaterfallShape ==
    "waterfallData" \in computed =>
        LET rows == waterfallData
            n == Len(rows)
        IN  /\ n >= 2
            /\ rows[1].type = "start"
            /\ rows[n].type = "end"
            /\ \A i \in 2..(n - 1) : rows[i].type \in {"positive", "negative"}
            /\ \A i \in 1..(n - 1) : TypeRank(rows[i].type) <= TypeRank(rows[i + 1].type)
            /\ rows[1].value = SumRecords(filtered, EveryRecord, StartYearValue)
            /\ rows[n].value = SumRecords(filtered, EveryRecord, EndYearValue)
            /\ \A i \in 2..(n - 2) :
                  rows[i].type = rows[i + 1].type => rows[i].value >= rows[i + 1].value

(* two groups that rise, the one met first in the records rising less *)
C22_Witness ==
    /\ "waterfallData" \in computed
    /\ Len(filtered) = 2
    /\ Len(waterfallData) = 4
    /\ waterfallData[2].type = "positive"
    /\ waterfallData[3].type = "positive"
    /\ waterfallData[2].value > waterfallData[3].value
    /\ waterfallGroupKey(filtered[2], filters) = waterfallData[2].name
    /\ waterfallGroupKey(filtered[1], filters) = waterfallData[3].name


----------------------------------------------------------------------------
(* Missing and out-of-range years *)

RangeYears(f) == f.yearRange[1]..f.yearRange[2]

(* the record with a time series that is dense over the year range and     *)
(* holds nothing else: absent years are 0, years outside are dropped       *)
DenseOverRange(r, f) ==
    [r EXCEPT !.time_series = [y \in RangeYears(f) |-> TimeSeriesValue(r, y)]]

DenseRecords(records, f) == [i \in 1..Len(records) |-> DenseOverRange(records[i], f)]

(* C23: prepareGroupedBarData returns exactly one row per year of the      *)
(* closed interval yearRange, in ascending order; a record without a value *)
(* for a year contributes 0 to the row of that year, and values of years   *)
(* outside yearRange appear in no row.                                     *)
C23_TotalOverMissingYears ==
    "barData" \in computed =>
        /\ Len(barData) = filters.yearRange[2] - filters.yearRange[1] + 1
        /\ \A i \in 1..Len(barData) : barData[i].year = filters.yearRange[1] + i - 1
        /\ barData = prepareGroupedBarData(DenseRecords(filtered, filters), filters)

(* rows over two years or more from a record that has no value for a year  *)
(* of the range and has a value for a year outside it                      *)
C23_Witness ==
    /\ "barData" \in computed
    /\ Len(barData) >= 2
    /\ \E i \in 1..Len(filtered) :
          /\ \E y \in RangeYears(filters) : y \notin DOMAIN filtered[i].time_series
          /\ \E y \in DOMAIN filtered[i].time_series :
                y \notin RangeYears(filters) /\ filtered[i].time_series[y] > 0
          /\ \E y \in RangeYears(filters) : TimeSeriesValue(filtered[i], y) > 0


----------------------------------------------------------------------------
(* Purity of the aggregations *)

----------------------------------------------------------------------------
(* Geography matching *)

(* b occurs in a as a block of consecutive characters *)
Contains(a, b) ==
    \E u \in 0..(Len(a) - Len(b)) : SubSeq(a, u + 1, u + Len(b)) = b

GeographyRelated(a, b) == a = b \/ Contains(a, b) \/ Contains(b, a)

(* C25: filterData accepts a record's geography exactly when the selection *)
(* is empty or the geography and some selected entry are equal or one of   *)
(* them contains the other (a prefix included); matching one name against  *)
(* one name is reflexive and symmetric; a record whose geography is in no  *)
(* such relation with a selected entry is not among the filtered records.  *)
C25_GeographyMatchIsContainment ==
    computed # {} =>
        \A i \in 1..Len(data) :
           LET geo == data[i].geography
               selected == filters.geographies
               related == \E j \in 1..Len(selected) : GeographyRelated(geo, selected[j])
           IN  /\ isGeographyMatch(geo, selected) <=> (Len(selected) = 0 \/ related)
               /\ isGeographyMatch(geo, <<geo>>)
               /\ \A j \in 1..Len(selected) :
                     /\ isGeographyMatch(selected[j], <<selected[j]>>)
                     /\ isGeographyMatch(geo, <<selected[j]>>)
                          <=> isGeographyMatch(selected[j], <<geo>>)
               /\ (Len(selected) > 0 /\ ~ related) =>
                     \A k \in 1..Len(filtered) : filtered[k] # data[i]

(* one record kept because its geography contains the selected name        *)
(* without starting with it, one dropped because it shares nothing with it *)
C25_Witness ==
    /\ computed # {}
    /\ Len(filters.geographies) = 1
    /\ Len(data) = 2
    /\ Len(filtered) = 1
    /\ Contains(filtered[1].geography, filters.geographies[1])
    /\ ~ StartsWith(filtered[1].geography, filters.geographies[1])
    /\ \E i \in 1..2 : ~ GeographyRelated(data[i].geography, filters.geographies[1])


----------------------------------------------------------------------------
(* Totals of the unstacked rows *)

RowTotal(row) == MapTotal(row.cols)

YearTotal(records, year) ==
    SeqSum([i \in 1..Len(records) |-> TimeSeriesValue(records[i], year)])

(* C29: when the bar rows are not stacked and 'India' is not selected, the *)
(* columns of every year row add up to the sum, over the records given to  *)
(* prepareGroupedBarData, of the record's value for that year.             *)
C29_UnstackedRowsConserveTotal ==
    ("barData" \in computed /\ ~ needsStacking(filters) /\ ~ hasIndia(filters)) =>
        \A y \in 1..Len(barData) :
           RowTotal(barData[y]) = YearTotal(filtered, barData[y].year)

(* unstacked rows of two records under two different columns, with a       *)
(* selection in force                                                      *)
C29_Witness ==
    /\ "barData" \in computed
    /\ ~ needsStacking(filters)
    /\ ~ hasIndia(filters)
    /\ Len(filters.geographies) + Len(filters.segments) > 0
    /\ Len(filtered) = 2
    /\ Cardinality(DOMAIN barData[1].cols) = 2
    /\ \A k \in DOMAIN barData[1].cols : barData[1].cols[k] > 0

(* C30: in segment-mode and in geography-mode, when the bar rows are not   *)
(* stacked, prepareLineChartData and prepareGroupedBarData give the same   *)
(* total for every year, also when 'India' is selected.                    *)
C30_LineAndBarTotalsAgree ==
    ("barData" \in computed /\ "lineData" \in computed
       /\ filters.viewMode \in {SEGMENT_MODE, GEOGRAPHY_MODE}
       /\ ~ needsStacking(filters)) =>
        /\ Len(barData) = Len(lineData)
        /\ \A y \in 1..Len(barData) :
              /\ barData[y].year = lineData[y].year
              /\ RowTotal(barData[y]) = RowTotal(lineData[y])


----------------------------------------------------------------------------
(* Frame conditions of the store *)

(* fields is what a step from before to after did to the filter state:     *)
(* the fields present hold the given values, every other field is as it    *)
(* was, and no field appeared or disappeared beyond those given            *)
ChangesExactly(before, after, fields) ==
    /\ DOMAIN after = (DOMAIN before) \cup (DOMAIN fields)
    /\ \A k \in DOMAIN after :
          after[k] = IF k \in DOMAIN fields THEN fields[k] ELSE before[k]

(* C26: the loaded data changes only in a setData step; updateFilters,     *)
(* resetFilters, setLoading, setError and setSelectedChartGroup leave it   *)
(* unchanged; updateFilters(partial) gives the fields present in partial   *)
(* their new values and leaves every other filter field unchanged.         *)
C26_StoreFrame ==
    [][/\ (store'.data # store.data => \E d \in StoreDatasets : SetData(d))
       /\ \A newFilters \in FilterPartials :
             UpdateFilters(newFilters) =>
                /\ store'.data = store.data
                /\ ChangesExactly(store.filters, store'.filters, newFilters)
       /\ (\/ ResetFilters
           \/ \E loading \in BOOLEAN : SetLoading(loading)
           \/ \E error \in ErrorValues : SetError(error)
           \/ \E groupId \in ChartGroupIds : SetSelectedChartGroup(groupId))
          => store'.data = store.data]_vars

(* a document is loaded, its segments were derived from the records, and   *)
(* a later updateFilters changed the view mode and nothing else            *)
C26_Witness ==
    /\ store.data # NULL
    /\ store.filters.viewMode = GEOGRAPHY_MODE
    /\ store.filters.segments = <<"B2B > Food > Bev > Tea", "B2B > Food > Bev > Coffee">>
    /\ store.filters.geographies = <<>>
    /\ store.filters.yearRange = <<2020, 2032>>
    /\ store.filters.dataType = "value"


----------------------------------------------------------------------------
(* The top regions and countries of the presets *)

RecordsOf(geography) ==
    IF store.data = NULL THEN <<>>
    ELSE SelectSeq(matrixOf(store.data), LAMBDA r : r.geography = geography)

(* the total 2024 value of the geography's records *)
TotalValueOf(geography) ==
    RatOf(SumRecords(RecordsOf(geography), EveryRecord,
                     LAMBDA r : TimeSeriesValue(r, 2024)))

(* the average of the cagr of the geography's records that carry one *)
AverageCagrOf(geography) ==
    LET carrying == SelectSeq(RecordsOf(geography), HasCagr) IN
      IF Len(carrying) = 0 THEN RatOf(0)
      ELSE Rat(SumRecords(carrying, EveryRecord, LAMBDA r : r.cagr), Len(carrying))

TopList(call, score(_)) ==
    /\ Len(call.names) <= call.topN
    /\ NoRepeat(call.names)
    /\ \A i \in 1..(Len(call.names) - 1) :
          RatLE(score(call.names[i + 1]), score(call.names[i]))
    /\ \A i \in 1..Len(call.names) : ~ isGlobalName(call.names[i])
    /\ (store.data = NULL => call.names = <<>>)

(* C28: getTopRegionsByMarketValue, getTopRegionsByCAGR and                *)
(* getTopCountriesByCAGR return at most topN distinct geography names, in  *)
(* the order of non-increasing total value (average CAGR for the two CAGR  *)
(* functions) of the geography's records, never 'India' or 'Global', and   *)
(* the empty list when data is null.                                       *)
C28_TopLists ==
    /\ TopList(presets.byMarketValue, TotalValueOf)
    /\ TopList(presets.regionsByCAGR, AverageCagrOf)
    /\ TopList(presets.countriesByCAGR, AverageCagrOf)


----------------------------------------------------------------------------
(* Termination of the descendant collection *)

Elements(q) == {q[i] : i \in 1..Len(q)}

(* the outermost call has returned *)
Returned == callStack = <<>>

(* every segment below the segment in the hierarchy, by any number of steps *)
TransitiveDescendants(hierarchy, segment) ==
    Subtree(hierarchy, StepBelow(hierarchy, {segment}))

(* C27: for every cycle-free parent-to-children mapping getAllDescendants  *)
(* terminates, and the array it returns holds exactly the transitive       *)
(* descendants of the segment it was called for.                           *)
C27_DescentTerminatesComplete ==
    /\ <>Returned
    /\ [][(Len(callStack) = 1 /\ Returned') =>
             LET h == segmentHierarchy(dimensions, filters)
                 segment == callStack[1].parentSegment
             IN  /\ Elements(descendants') = TransitiveDescendants(h, segment)
                 /\ Elements(descendants') = getAllDescendants(h, segment)]_vars

(* a call has returned the descendants of a segment whose grandchild is    *)
(* reachable through two children                                          *)
C27_Witness ==
    /\ Returned
    /\ Len(descendants) > Cardinality(Elements(descendants))
    /\ Cardinality(Elements(descendants)) >= 3

====
